---------------------------- MODULE Spec2Model ----------------------------
(***************************************************************************)
(* A model of the kiwi key-value store (nobletooth/kiwi): the LSM          *)
(* coordinator (pkg/storage/lsm.go), the memtable, the prefix compressor,  *)
(* the segment (SSTable) writer and reader, and the tombstone/expiry aware *)
(* storage backend (pkg/port/backend.go).                                  *)
(*                                                                         *)
(* Byte strings are sequences of naturals.  The store is modelled with the *)
(* block cache disabled (enable_block_cache=false, the no-op layer), so a  *)
(* data block is always read from the segment file.                        *)
(***************************************************************************)
EXTENDS Integers, Sequences, FiniteSets, TLC

(***************************************************************************)
(* Bounds of the model and configuration of the program.                   *)
(***************************************************************************)
\* The most segments a table directory may hold before writes stop.
MaxSegments == 2
\* The most set/swap calls applied to the memtables of a run.
MaxWrites == 4
\* The most segment files of a table directory found when it is first opened.
MaxFiles == 3
\* The most injected I/O failures (segment write, segment open, file close).
MaxFaults == 1
\* The most times the store is closed and opened again.
MaxReopens == 1
\* --memtable_flush_size, as the tests set it.
memtableFlushSize == 3
\* --memtable_flush_size_bytes, as the tests set it.
memtableFlushSizeBytes == 9
\* --bloom_filter_min_keys.
bfIndexMinKeys == 5

\* The keys written and read: "aa", "ab", "b", "bb" over the bytes 1 ("a"), 2 ("b").
Keys == {<<1, 1>>, <<1, 2>>, <<2>>, <<2, 2>>}
\* The empty key, which get and set reject.
EmptyKey == <<>>
\* The values written through the LSM tree directly: a short one and one long enough for
\* a single pair to reach memtableFlushSizeBytes.
Values == {<<1>>, <<2, 2, 2, 2, 2, 2, 2, 2>>}
\* The pairs the callers write: every key with the short value, "b" also with the long one.
Writes == {<<k, <<1>>>> : k \in Keys} \cup {<<<<2>>, <<2, 2, 2, 2, 2, 2, 2, 2>>>>}

(***************************************************************************)
(* Byte-string helpers (Go standard library calls made by the code).       *)
(***************************************************************************)
RECURSIVE BytesCompare(_, _)
\* bytes.Compare: the three-way lexicographic comparison of two byte strings.
BytesCompare(a, b) ==
    IF a = <<>> /\ b = <<>> THEN 0
    ELSE IF a = <<>> THEN -1
    ELSE IF b = <<>> THEN 1
    ELSE IF Head(a) < Head(b) THEN -1
    ELSE IF Head(a) > Head(b) THEN 1
    ELSE BytesCompare(Tail(a), Tail(b))

\* bytes.HasPrefix.
HasPrefix(s, prefix) ==
    /\ Len(prefix) <= Len(s)
    /\ SubSeq(s, 1, Len(prefix)) = prefix

\* bytes.TrimPrefix: s without the leading prefix; s itself when it does not start with it.
TrimPrefix(s, prefix) ==
    IF HasPrefix(s, prefix) THEN SubSeq(s, Len(prefix) + 1, Len(s)) ELSE s

RECURSIVE BinarySearchLoop(_, _, _, _)
\* The loop of slices.BinarySearchFunc over x[i..j) (0-based, as in Go).
BinarySearchLoop(x, target, i, j) ==
    IF i < j
    THEN LET h == (i + j) \div 2
         IN  IF BytesCompare(x[h + 1], target) < 0
             THEN BinarySearchLoop(x, target, h + 1, j)
             ELSE BinarySearchLoop(x, target, i, h)
    ELSE i

\* slices.BinarySearchFunc(x, target, bytes.Compare): the 0-based position and whether it was found.
BinarySearchFunc(x, target) ==
    LET i == BinarySearchLoop(x, target, 0, Len(x))
    IN  [index |-> i, found |-> i < Len(x) /\ BytesCompare(x[i + 1], target) = 0]

RECURSIVE lcpLoop(_, _, _, _)
\* The loop of lcpLen.
lcpLoop(k1, k2, biggerSize, longestCommon) ==
    IF longestCommon < biggerSize /\ k1[longestCommon + 1] = k2[longestCommon + 1]
    THEN lcpLoop(k1, k2, biggerSize, longestCommon + 1)
    ELSE longestCommon

\* lcpLen: the length of the longest common prefix of k1 and k2.
lcpLen(k1, k2) ==
    LET biggerSize == IF Len(k2) < Len(k1) THEN Len(k2) ELSE Len(k1)
    IN  lcpLoop(k1, k2, biggerSize, 0)

\* slices.Min over a non-empty sequence of integers.
SeqMin(s) == CHOOSE m \in {s[i] : i \in 1..Len(s)} : \A i \in 1..Len(s) : m <= s[i]

RECURSIVE SumLen(_)
\* The sum of the lengths of the byte strings of a sequence.
SumLen(s) == IF s = <<>> THEN 0 ELSE Len(Head(s)) + SumLen(Tail(s))

(***************************************************************************)
(* The skip list, seen at its level 0: a list of pairs ascending by key.   *)
(***************************************************************************)
\* NewSkipList: the empty list.
NewSkipList == <<>>

\* The position of the first node whose key is not less than key (Len+1 if none).
SkipListSeek(skipList, key) ==
    LET smaller == {i \in 1..Len(skipList) : BytesCompare(skipList[i].Key, key) < 0}
    IN  Cardinality(smaller) + 1

\* SkipList.Get: the value of key and whether it was found.
SkipListGet(skipList, key) ==
    LET pos == SkipListSeek(skipList, key)
    IN  IF pos <= Len(skipList) /\ BytesCompare(skipList[pos].Key, key) = 0
        THEN [value |-> skipList[pos].Value, found |-> TRUE]
        ELSE [value |-> <<>>, found |-> FALSE]

\* SkipList.Set: update in place or splice a new node; returns the previous value.
SkipListSet(skipList, key, value) ==
    LET pos == SkipListSeek(skipList, key)
        pair == [Key |-> key, Value |-> value]
    IN  IF pos <= Len(skipList) /\ BytesCompare(skipList[pos].Key, key) = 0
        THEN [skipList |-> [skipList EXCEPT ![pos] = pair],
              prevVal |-> skipList[pos].Value, found |-> TRUE]
        ELSE [skipList |-> SubSeq(skipList, 1, pos - 1) \o <<pair>>
                               \o SubSeq(skipList, pos, Len(skipList)),
              prevVal |-> <<>>, found |-> FALSE]

\* SkipList.Delete: unlink the node of key; returns the previous value.
SkipListDelete(skipList, key) ==
    LET pos == SkipListSeek(skipList, key)
    IN  IF pos <= Len(skipList) /\ BytesCompare(skipList[pos].Key, key) = 0
        THEN [skipList |-> SubSeq(skipList, 1, pos - 1)
                               \o SubSeq(skipList, pos + 1, Len(skipList)),
              prevVal |-> skipList[pos].Value, found |-> TRUE]
        ELSE [skipList |-> skipList, prevVal |-> <<>>, found |-> FALSE]

(***************************************************************************)
(* The memtable.                                                           *)
(***************************************************************************)
\* NewMemTable.
NewMemTable == [skipList |-> NewSkipList, entries |-> 0, heldBytes |-> 0]

\* MemTable.Get.
MemTableGet(m, key) == SkipListGet(m.skipList, key)

\* MemTable.Swap with thresholds that must be exceeded.
MemTableSwap_StrictThresholds(m, key, value) ==
    LET r == SkipListSet(m.skipList, key, value)
        entries == IF r.found THEN m.entries ELSE m.entries + 1
        heldBytes == IF r.found THEN m.heldBytes + Len(value) - Len(r.prevVal)
                     ELSE m.heldBytes + Len(key) + Len(value)
    IN  [memTable |-> [skipList |-> r.skipList, entries |-> entries, heldBytes |-> heldBytes],
         shouldFlush |-> entries > memtableFlushSize \/ heldBytes > memtableFlushSizeBytes,
         found |-> r.found,
         prevVal |-> r.prevVal]

\* MemTable.Swap: the updated memtable, shouldFlush, found and the previous value.
MemTableSwap(m, key, value) ==
    LET r == SkipListSet(m.skipList, key, value)
        entries == IF r.found THEN m.entries ELSE m.entries + 1
        heldBytes == IF r.found THEN m.heldBytes + Len(value) - Len(r.prevVal)
                     ELSE m.heldBytes + Len(key) + Len(value)
    IN  [memTable |-> [skipList |-> r.skipList, entries |-> entries, heldBytes |-> heldBytes],
         shouldFlush |-> entries >= memtableFlushSize \/ heldBytes >= memtableFlushSizeBytes,
         found |-> r.found,
         prevVal |-> r.prevVal]

\* MemTable.Set: the thin form over Swap.
MemTableSet(m, key, value) ==
    LET r == MemTableSwap(m, key, value)
    IN  [memTable |-> r.memTable, shouldFlush |-> r.shouldFlush]

\* MemTable.Delete: the updated memtable and found.
MemTableDelete(m, key) ==
    LET r == SkipListDelete(m.skipList, key)
    IN  [memTable |-> [skipList |-> r.skipList,
                       entries |-> IF r.found THEN m.entries - 1 ELSE m.entries,
                       heldBytes |-> IF r.found THEN m.heldBytes - (Len(key) + Len(r.prevVal))
                                     ELSE m.heldBytes],
         found |-> r.found]

\* MemTable.Pairs: the pairs ascending by key.
MemTablePairs(m) == m.skipList

(***************************************************************************)
(* The prefix compressor.  Indices are 0-based as in the Go code; a Go     *)
(* slice x is the function [i \in 0..len-1 |-> x[i]].                      *)
(***************************************************************************)
\* int(^uint(0) >> 1), the initial running minimum (TLC integers are 32 bits wide).
MaxInt == 2147483647

\* lcpNext[i] = LCP(keys[i], keys[i+1]).
LcpNext(pairs) ==
    [i \in 0..(Len(pairs) - 2) |-> lcpLen(pairs[i + 1].Key, pairs[i + 2].Key)]

RECURSIVE CompressInnerLoop_FirstBest(_, _, _, _, _, _, _, _)
\* The loop over j without the tie-break on the number of blocks: the first j that
\* reaches the best savings is kept.
CompressInnerLoop_FirstBest(lcpNext, dpSave, dpBlocks, pairsNum, i, j, minL, best) ==
    IF j < pairsNum
    THEN LET newMinL == IF j # i /\ lcpNext[j - 1] < minL THEN lcpNext[j - 1] ELSE minL
             blockSave == IF j = i THEN 0 ELSE (j - i) * newMinL
             candSave == blockSave + dpSave[j + 1]
             candBlocks == 1 + dpBlocks[j + 1]
             newBest == IF candSave > best.save
                        THEN [save |-> candSave, blocks |-> candBlocks, j |-> j]
                        ELSE best
         IN  CompressInnerLoop_FirstBest(lcpNext, dpSave, dpBlocks, pairsNum, i, j + 1,
                                         newMinL, newBest)
    ELSE best

RECURSIVE CompressInnerLoop(_, _, _, _, _, _, _, _)
\* The loop over j of compressDataBlocks: the best block [i..j] starting at i.
CompressInnerLoop(lcpNext, dpSave, dpBlocks, pairsNum, i, j, minL, best) ==
    IF j < pairsNum
    THEN LET newMinL == IF j # i /\ lcpNext[j - 1] < minL THEN lcpNext[j - 1] ELSE minL
             blockSave == IF j = i THEN 0 ELSE (j - i) * newMinL
             candSave == blockSave + dpSave[j + 1]
             candBlocks == 1 + dpBlocks[j + 1]
             newBest == IF candSave > best.save
                           \/ (candSave = best.save /\ candBlocks < best.blocks)
                        THEN [save |-> candSave, blocks |-> candBlocks, j |-> j]
                        ELSE best
         IN  CompressInnerLoop(lcpNext, dpSave, dpBlocks, pairsNum, i, j + 1, newMinL, newBest)
    ELSE best

RECURSIVE CompressOuterLoop(_, _, _, _, _, _)
\* The loop over i (from the last pair down) of compressDataBlocks: the chosen end of each block.
CompressOuterLoop(lcpNext, pairsNum, i, dpSave, dpBlocks, end) ==
    IF i >= 0
    THEN LET best == CompressInnerLoop(lcpNext, dpSave, dpBlocks, pairsNum, i, i, MaxInt,
                                       [save |-> -1, blocks |-> MaxInt, j |-> i])
         IN  CompressOuterLoop(lcpNext, pairsNum, i - 1,
                               [dpSave EXCEPT ![i] = best.save],
                               [dpBlocks EXCEPT ![i] = best.blocks],
                               [end EXCEPT ![i] = best.j])
    ELSE end

RECURSIVE CompressReconstruct_FirstLcp(_, _, _, _, _, _)
\* The reconstruction loop with the prefix length of a block taken from its first two keys.
CompressReconstruct_FirstLcp(pairs, lcpNext, end, i, prefixes, blocks) ==
    IF i < Len(pairs)
    THEN LET j == end[i]
             predixLength == IF j > i THEN lcpNext[i] ELSE 0
             prefix == SubSeq(pairs[i + 1].Key, 1, predixLength)
             db == [Keys |-> [k \in 1..(j - i + 1) |->
                                 SubSeq(pairs[i + k].Key, predixLength + 1, Len(pairs[i + k].Key))],
                    Values |-> [k \in 1..(j - i + 1) |-> pairs[i + k].Value]]
         IN  CompressReconstruct_FirstLcp(pairs, lcpNext, end, j + 1,
                                          Append(prefixes, prefix), Append(blocks, db))
    ELSE [prefixes |-> prefixes, blocks |-> blocks]

RECURSIVE CompressReconstruct(_, _, _, _, _, _)
\* The reconstruction loop of compressDataBlocks: the prefixes and the blocks.
CompressReconstruct(pairs, lcpNext, end, i, prefixes, blocks) ==
    IF i < Len(pairs)
    THEN LET j == end[i]
             predixLength == IF j > i THEN SeqMin([k \in 1..(j - i) |-> lcpNext[i + k - 1]]) ELSE 0
             prefix == SubSeq(pairs[i + 1].Key, 1, predixLength)
             db == [Keys |-> [k \in 1..(j - i + 1) |->
                                 SubSeq(pairs[i + k].Key, predixLength + 1, Len(pairs[i + k].Key))],
                    Values |-> [k \in 1..(j - i + 1) |-> pairs[i + k].Value]]
         IN  CompressReconstruct(pairs, lcpNext, end, j + 1,
                                 Append(prefixes, prefix), Append(blocks, db))
    ELSE [prefixes |-> prefixes, blocks |-> blocks]

\* compressDataBlocks: splits the sorted pairs into prefixed blocks.
compressDataBlocks(pairs) ==
    LET pairsNum == Len(pairs)
        lcpNext == LcpNext(pairs)
        zeros == [i \in 0..pairsNum |-> 0]
        end == CompressOuterLoop(lcpNext, pairsNum, pairsNum - 1, zeros, zeros,
                                 [i \in 0..(pairsNum - 1) |-> 0])
    IN  IF pairsNum = 0
        THEN [prefixes |-> <<>>, blocks |-> <<>>]
        ELSE CompressReconstruct(pairs, lcpNext, end, 0, <<>>, <<>>)

(***************************************************************************)
(* The segment (SSTable) writer and reader.                                *)
(***************************************************************************)
\* getBlockSize of a data block: the 8-byte length prefix and the protobuf size
\* (a tag byte and a length byte per key and per value, then the bytes).
getBlockSize(block) ==
    8 + (2 * Len(block.Keys) + SumLen(block.Keys))
      + (2 * Len(block.Values) + SumLen(block.Values))

RECURSIVE BlockOffsets(_, _, _)
\* The header-building loop of writeSSTable: the offset of each block in the data region.
BlockOffsets(dataBlocks, lastBlockOffset, acc) ==
    IF dataBlocks = <<>> THEN acc
    ELSE BlockOffsets(Tail(dataBlocks), lastBlockOffset + getBlockSize(Head(dataBlocks)),
                      Append(acc, lastBlockOffset))

\* The keys of a batch of pairs.
PairKeys(pairs) == {pairs[i].Key : i \in 1..Len(pairs)}

\* The outcomes of building the bloom filter: none below bloom_filter_min_keys; otherwise a
\* filter that accepts every key added and, depending on the hash values, any other keys.
BloomChoices(pairs) ==
    IF Len(pairs) >= bfIndexMinKeys
    THEN {[present |-> TRUE, accepts |-> PairKeys(pairs) \cup fp] :
              fp \in SUBSET (Keys \ PairKeys(pairs))}
    ELSE {[present |-> FALSE, accepts |-> {}]}

\* The header-building part of writeSSTable: the segment file (header and data blocks)
\* of the compressed batch c.
PartFile(prevId, nextId, bf, c) ==
    LET prefixes == c.prefixes
        dataBlocks == c.blocks
        lastDBlockIndex == Len(dataBlocks)
        lastKeyIndex == Len(dataBlocks[lastDBlockIndex].Keys)
    IN  [Id |-> nextId,
         PrevPart |-> prevId,
         BfIndex |-> bf,
         Prefixes |-> prefixes,
         FirstKeys |-> [i \in 1..Len(dataBlocks) |-> prefixes[i] \o dataBlocks[i].Keys[1]],
         LastKey |-> prefixes[lastDBlockIndex] \o dataBlocks[lastDBlockIndex].Keys[lastKeyIndex],
         BlockOffsets |-> BlockOffsets(dataBlocks, 0, <<>>),
         Blocks |-> dataBlocks]

\* writeSSTable: the segment file written for a non-empty batch.
writeSSTable(prevId, nextId, pairs, bf) ==
    PartFile(prevId, nextId, bf, compressDataBlocks(pairs))

\* NewSSTable: the open segment, holding the header and reading the blocks of the file.
NewSSTable(file) == [header |-> file, closed |-> FALSE, readerClosed |-> FALSE]

\* BlockReader.ReadBlock: the data block stored at the given offset of the data region.
ReadBlock(header, blockOffset) ==
    header.Blocks[CHOOSE i \in 1..Len(header.Blocks) : header.BlockOffsets[i] = blockOffset]

\* SSTable.getFromDataBlocks: finds the block by the skip index and the key inside it.
getFromDataBlocks(s, key) ==
    LET search == BinarySearchFunc(s.header.FirstKeys, key)
        blockIndex == IF search.found THEN search.index ELSE search.index - 1
        blockOffset == s.header.BlockOffsets[blockIndex + 1]
        dataBlock == ReadBlock(s.header, blockOffset)
        keyWithoutPrefix == TrimPrefix(key, s.header.Prefixes[blockIndex + 1])
        inBlock == BinarySearchFunc(dataBlock.Keys, keyWithoutPrefix)
    IN  IF ~search.found /\ search.index = 0
        THEN [kind |-> "not_found", val |-> <<>>]
        ELSE IF s.readerClosed \* ReadBlock fails: "block reader is closed".
        THEN [kind |-> "io", val |-> <<>>]
        ELSE IF inBlock.found
             THEN [kind |-> "ok", val |-> dataBlock.Values[inBlock.index + 1]]
             ELSE [kind |-> "not_found", val |-> <<>>]

\* SSTable.Get: closed check, key range check, bloom filter, then the data blocks.
SSTableGet(s, key) ==
    IF s.closed
    THEN [kind |-> "closed", val |-> <<>>]
    ELSE IF BytesCompare(key, s.header.FirstKeys[1]) < 0
            \/ BytesCompare(key, s.header.LastKey) > 0
         THEN [kind |-> "not_found", val |-> <<>>]
         ELSE IF s.header.BfIndex.present /\ key \notin s.header.BfIndex.accepts
              THEN [kind |-> "not_found", val |-> <<>>]
              ELSE getFromDataBlocks(s, key)

\* SSTable.Close: fails on a closed segment and when closing the file fails (the block
\* reader is closed either way, the closed flag is set only on success).
SSTableClose(s, fileCloseFails) ==
    IF s.closed
    THEN [sst |-> s, err |-> TRUE]
    ELSE IF s.readerClosed \/ fileCloseFails
         THEN [sst |-> [s EXCEPT !.readerClosed = TRUE], err |-> TRUE]
         ELSE [sst |-> [s EXCEPT !.readerClosed = TRUE, !.closed = TRUE], err |-> FALSE]

(***************************************************************************)
(* The LSM coordinator.  An LSMTree is [memTable, latestDiskTable,         *)
(* diskTables]; latestDiskTable is the id of the tail segment, 0 for nil.  *)
(* A table directory is a function from file names (n for "n.sst") to      *)
(* segment files.                                                          *)
(***************************************************************************)
\* The directory with the file Name written (created or replaced by the rename).
DirWrite(d, name, file) ==
    [n \in DOMAIN d \cup {name} |-> IF n = name THEN file ELSE d[n]]

\* The diskTables map with the part id set to sst.
MapPut(m, id, sst) ==
    [n \in DOMAIN m \cup {id} |-> IF n = id THEN sst ELSE m[n]]

RECURSIVE WalkDir(_, _, _, _)
\* The filepath.Walk callback of NewLSMTree over the files in lexical order: the
\* diskTables map (a later file with the same id replaces an earlier one) and prevPartIds.
WalkDir(d, names, diskTables, prevPartIds) ==
    IF names = {}
    THEN [diskTables |-> diskTables, prevPartIds |-> prevPartIds]
    ELSE LET name == CHOOSE n \in names : \A o \in names : n <= o
             sst == NewSSTable(d[name])
         IN  WalkDir(d, names \ {name}, MapPut(diskTables, sst.header.Id, sst),
                     prevPartIds \cup {sst.header.PrevPart})

RECURSIVE FindTail_LastWins(_, _, _)
\* The tail loop keeping the last part that is nobody's previous part instead of failing.
FindTail_LastWins(order, prevPartIds, latestDiskTable) ==
    IF order = <<>>
    THEN [latestDiskTable |-> latestDiskTable, err |-> "none"]
    ELSE IF Head(order) \notin prevPartIds
         THEN FindTail_LastWins(Tail(order), prevPartIds, Head(order))
         ELSE FindTail_LastWins(Tail(order), prevPartIds, latestDiskTable)

RECURSIVE FindTail(_, _, _)
\* The tail loop of NewLSMTree over the parts in map iteration order: the part that is
\* nobody's previous part; a second one is an error.
FindTail(order, prevPartIds, latestDiskTable) ==
    IF order = <<>>
    THEN [latestDiskTable |-> latestDiskTable, err |-> "none"]
    ELSE IF Head(order) \notin prevPartIds
         THEN IF latestDiskTable # 0
              THEN [latestDiskTable |-> latestDiskTable, err |-> "multi_tail_lsm"]
              ELSE FindTail(Tail(order), prevPartIds, Head(order))
         ELSE FindTail(Tail(order), prevPartIds, latestDiskTable)

\* The orders in which a Go map with the key set S may be iterated.
MapOrders(S) ==
    {o \in [1..Cardinality(S) -> S] : \A i, j \in 1..Cardinality(S) : i # j => o[i] # o[j]}

\* NewLSMTree: scans the directory, finds the tail and builds the tree with a new memtable.
NewLSMTree(d, order) ==
    LET w == WalkDir(d, DOMAIN d, <<>>, {})
        t == FindTail(order, w.prevPartIds, 0)
        tree == [memTable |-> NewMemTable,
                 latestDiskTable |-> t.latestDiskTable,
                 diskTables |-> w.diskTables]
    IN  IF t.err # "none"
        THEN [lsm |-> tree, err |-> t.err]
        ELSE IF t.latestDiskTable = 0 /\ DOMAIN w.diskTables # {}
             THEN [lsm |-> tree, err |-> "no_tail_lsm"]
             ELSE [lsm |-> tree, err |-> "none"]

RECURSIVE LookupLoop(_, _, _, _)
\* The chain walk of lookupDiskTables from partId along the previous-part links.  The Go
\* loop has no exit on a cycle of links: "loops" stands for a walk that never returns.
LookupLoop(l, key, partId, visited) ==
    IF partId > 0
    THEN IF partId \notin DOMAIN l.diskTables
         THEN [kind |-> "missing_part", val |-> <<>>]
         ELSE IF partId \in visited
         THEN [kind |-> "loops", val |-> <<>>]
         ELSE LET sst == l.diskTables[partId]
                  r == SSTableGet(sst, key)
              IN  IF r.kind = "not_found"
                  THEN LookupLoop(l, key, sst.header.PrevPart, visited \cup {partId})
                  ELSE r
    ELSE [kind |-> "not_found", val |-> <<>>]

\* LSMTree.lookupDiskTables: the value of the key in the chain, newest segment first.
lookupDiskTables(l, key) ==
    IF l.latestDiskTable = 0
    THEN [kind |-> "not_found", val |-> <<>>]
    ELSE LookupLoop(l, key, l.latestDiskTable, {})

\* LSMTree.Get: rejects the empty key, then the memtable, then the chain.
LSMTreeGet(l, key) ==
    IF Len(key) = 0
    THEN [kind |-> "invalid_input", val |-> <<>>]
    ELSE LET m == MemTableGet(l.memTable, key)
         IN  IF m.found
             THEN [kind |-> "ok", val |-> m.value]
             ELSE lookupDiskTables(l, key)

\* The outcomes of the file operations of a flush.
FlushIO == {"ok", "write_fails", "open_fails"}

\* InstallPart resetting the memtable before the segment is written and opened.
InstallPart_ResetsFirst(l, d, io, nextPartId, file) ==
    IF io = "write_fails"
    THEN [lsm |-> [l EXCEPT !.memTable = NewMemTable], dir |-> d, err |-> "io",
          flushed |-> FALSE]
    ELSE IF io = "open_fails"
    THEN [lsm |-> [l EXCEPT !.memTable = NewMemTable],
          dir |-> DirWrite(d, nextPartId, file), err |-> "io", flushed |-> FALSE]
    ELSE [lsm |-> [memTable |-> NewMemTable,
                   latestDiskTable |-> nextPartId,
                   diskTables |-> MapPut(l.diskTables, nextPartId, NewSSTable(file))],
          dir |-> DirWrite(d, nextPartId, file),
          err |-> "none", flushed |-> TRUE]

\* The part of flushMemTable after the segment file is built: the write, the open and
\* the installation of the segment as the new tail with a fresh memtable.
InstallPart(l, d, io, nextPartId, file) ==
    IF io = "write_fails"
    THEN [lsm |-> l, dir |-> d, err |-> "io", flushed |-> FALSE]
    ELSE IF io = "open_fails"
    THEN [lsm |-> l, dir |-> DirWrite(d, nextPartId, file), err |-> "io", flushed |-> FALSE]
    ELSE [lsm |-> [memTable |-> NewMemTable,
                   latestDiskTable |-> nextPartId,
                   diskTables |-> MapPut(l.diskTables, nextPartId, NewSSTable(file))],
          dir |-> DirWrite(d, nextPartId, file),
          err |-> "none", flushed |-> TRUE]

\* flushMemTable computing the next part id from the number of segments of the directory
\* rather than from the tail.
flushMemTable_FromDirSize(l, d, io, bf) ==
    IF Len(MemTablePairs(l.memTable)) = 0
    THEN [lsm |-> l, dir |-> d, err |-> "none", flushed |-> FALSE]
    ELSE InstallPart(l, d, io, Cardinality(DOMAIN d) + 1,
                     writeSSTable(l.latestDiskTable, Cardinality(DOMAIN d) + 1,
                                  MemTablePairs(l.memTable), bf))

\* LSMTree.flushMemTable: writes the memtable as the segment after the tail, opens it and
\* installs it as the new tail; nothing to do for an empty memtable.
flushMemTable(l, d, io, bf) ==
    IF Len(MemTablePairs(l.memTable)) = 0
    THEN [lsm |-> l, dir |-> d, err |-> "none", flushed |-> FALSE]
    ELSE InstallPart(l, d, io, l.latestDiskTable + 1,
                     writeSSTable(l.latestDiskTable, l.latestDiskTable + 1,
                                  MemTablePairs(l.memTable), bf))

\* LSMTree.Set without the check of the key.
LSMTreeSet_NoKeyCheck(l, d, key, value, io, bf) ==
    LET m == MemTableSet(l.memTable, key, value)
        applied == [l EXCEPT !.memTable = m.memTable]
    IN  IF m.shouldFlush
        THEN flushMemTable(applied, d, io, bf)
        ELSE [lsm |-> applied, dir |-> d, err |-> "none", flushed |-> FALSE]

\* LSMTree.Set: rejects the empty key, applies the pair to the memtable, flushes when full.
LSMTreeSet(l, d, key, value, io, bf) ==
    IF Len(key) = 0
    THEN [lsm |-> l, dir |-> d, err |-> "invalid_input", flushed |-> FALSE]
    ELSE LET m == MemTableSet(l.memTable, key, value)
             applied == [l EXCEPT !.memTable = m.memTable]
         IN  IF m.shouldFlush
             THEN flushMemTable(applied, d, io, bf)
             ELSE [lsm |-> applied, dir |-> d, err |-> "none", flushed |-> FALSE]

\* The end of LSMTree.Swap: the error of the flush f, or the previous value res.
SwapReturn(f, res) ==
    IF f.err # "none"
    THEN [lsm |-> f.lsm, dir |-> f.dir, flushed |-> FALSE, res |-> [kind |-> f.err, val |-> <<>>]]
    ELSE [lsm |-> f.lsm, dir |-> f.dir, flushed |-> f.flushed, res |-> res]

\* SwapApplied taking the previous value from the chain even when the memtable holds one.
SwapApplied_DiskFirst(l, d, io, bf, m, onDisk) ==
    IF ~m.found /\ onDisk.kind \notin {"ok", "not_found"}
    THEN [lsm |-> [l EXCEPT !.memTable = m.memTable], dir |-> d, flushed |-> FALSE,
          res |-> [kind |-> onDisk.kind, val |-> <<>>]]
    ELSE SwapReturn(IF m.shouldFlush
                    THEN flushMemTable([l EXCEPT !.memTable = m.memTable], d, io, bf)
                    ELSE [lsm |-> [l EXCEPT !.memTable = m.memTable], dir |-> d,
                          err |-> "none", flushed |-> FALSE],
                    IF onDisk.kind = "ok" THEN [kind |-> "ok", val |-> onDisk.val]
                    ELSE IF m.found THEN [kind |-> "ok", val |-> m.prevVal]
                    ELSE [kind |-> "not_found", val |-> <<>>])

\* LSMTree.Swap after the memtable swap m: the previous value is the memtable's or else
\* the one found in the chain (onDisk); a failed chain lookup returns its error; then the
\* flush of a full memtable.
SwapApplied(l, d, io, bf, m, onDisk) ==
    IF ~m.found /\ onDisk.kind \notin {"ok", "not_found"}
    THEN [lsm |-> [l EXCEPT !.memTable = m.memTable], dir |-> d, flushed |-> FALSE,
          res |-> [kind |-> onDisk.kind, val |-> <<>>]]
    ELSE SwapReturn(IF m.shouldFlush
                    THEN flushMemTable([l EXCEPT !.memTable = m.memTable], d, io, bf)
                    ELSE [lsm |-> [l EXCEPT !.memTable = m.memTable], dir |-> d,
                          err |-> "none", flushed |-> FALSE],
                    IF m.found THEN [kind |-> "ok", val |-> m.prevVal]
                    ELSE IF onDisk.kind = "ok" THEN [kind |-> "ok", val |-> onDisk.val]
                    ELSE [kind |-> "not_found", val |-> <<>>])

\* LSMTree.Swap: applies the pair to the memtable, takes the previous value from the
\* memtable or else from the chain, flushes when full and returns the previous value.
LSMTreeSwap(l, d, key, value, io, bf) ==
    SwapApplied(l, d, io, bf, MemTableSwap(l.memTable, key, value), lookupDiskTables(l, key))

\* The closing loop of LSMTree.Close skipped after a failed flush.
CloseDiskTables_StopAtFlushError(f, failing) ==
    LET closes == [id \in DOMAIN f.lsm.diskTables |->
                      IF f.err # "none" THEN [sst |-> f.lsm.diskTables[id], err |-> FALSE]
                      ELSE SSTableClose(f.lsm.diskTables[id], id \in failing)]
    IN  [lsm |-> [f.lsm EXCEPT !.diskTables = [id \in DOMAIN closes |-> closes[id].sst]],
         dir |-> f.dir,
         flushed |-> f.flushed,
         errs |-> (IF f.err # "none" THEN {0} ELSE {})
                      \cup {id \in DOMAIN closes : closes[id].err}]

\* The closing loop of LSMTree.Close after the flush f: every segment of the map is
\* closed; the errors are joined: the part id stands for a segment's error, 0 for the
\* error of the flush.
CloseDiskTables(f, failing) ==
    LET closes == [id \in DOMAIN f.lsm.diskTables |->
                      SSTableClose(f.lsm.diskTables[id], id \in failing)]
    IN  [lsm |-> [f.lsm EXCEPT !.diskTables = [id \in DOMAIN closes |-> closes[id].sst]],
         dir |-> f.dir,
         flushed |-> f.flushed,
         errs |-> (IF f.err # "none" THEN {0} ELSE {})
                      \cup {id \in DOMAIN closes : closes[id].err}]

\* LSMTree.Close: flushes the memtable, then closes every segment of the map.
LSMTreeClose(l, d, io, bf, failing) ==
    CloseDiskTables(flushMemTable(l, d, io, bf), failing)

(***************************************************************************)
(* The value codec of the storage backend (pack / unpack).                 *)
(***************************************************************************)
\* Opts bit of a deleted key.
TombStone == 1
\* Opts bit of a value with an expiration time.
Expirable == 2

\* Opts.Is: any of the given option bits is set in o.
OptsIs(o, opts) ==
    \/ opts = TombStone /\ o % 2 = 1
    \/ opts = Expirable /\ (o \div 2) % 2 = 1

RECURSIVE PutUint64(_, _)
\* binary.BigEndian.PutUint64, to the given width in bytes.
PutUint64(n, width) ==
    IF width = 0 THEN <<>> ELSE Append(PutUint64(n \div 256, width - 1), n % 256)

RECURSIVE Uint64(_)
\* binary.BigEndian.Uint64 of a byte string.
Uint64(b) ==
    IF b = <<>> THEN 0 ELSE 256 * Uint64(SubSeq(b, 1, Len(b) - 1)) + b[Len(b)]

\* unpackedValue; expiry 0 is the zero time.Time.
Unpacked(opt, value, expiry) == [opt |-> opt, value |-> value, expiry |-> expiry]

tombstoneUnpacked == Unpacked(TombStone, <<>>, 0)

\* unpack: the record of a packed value, or an error for an empty or short buffer.
unpack(packed) ==
    IF Len(packed) = 0
    THEN [err |-> TRUE, uv |-> Unpacked(0, <<>>, 0)]
    ELSE IF OptsIs(packed[1], TombStone)
    THEN [err |-> FALSE, uv |-> tombstoneUnpacked]
    ELSE IF OptsIs(packed[1], Expirable)
    THEN IF Len(packed) < 1 + 8
         THEN [err |-> TRUE, uv |-> Unpacked(0, <<>>, 0)]
         ELSE [err |-> FALSE,
               uv |-> Unpacked(packed[1], SubSeq(packed, 2, Len(packed) - 8),
                               Uint64(SubSeq(packed, Len(packed) - 7, Len(packed))))]
    ELSE [err |-> FALSE, uv |-> Unpacked(packed[1], Tail(packed), 0)]

\* unpackedValue.pack writing the expiry at the precision of a microsecond.
pack_MicrosecondExpiry(uv) ==
    LET outputSize == 1 + Len(uv.value) + (IF OptsIs(uv.opt, Expirable) THEN 8 ELSE 0)
    IN  IF OptsIs(uv.opt, TombStone)
        THEN <<uv.opt>> \o [i \in 1..(outputSize - 1) |-> 0]
        ELSE IF OptsIs(uv.opt, Expirable)
        THEN <<uv.opt>> \o uv.value \o PutUint64((uv.expiry \div 1000) * 1000, 8)
        ELSE <<uv.opt>> \o uv.value

\* unpackedValue.pack: the options byte, the value and, if expirable, the expiry; a
\* tombstone returns the zeroed buffer after the options byte.
pack(uv) ==
    LET outputSize == 1 + Len(uv.value) + (IF OptsIs(uv.opt, Expirable) THEN 8 ELSE 0)
    IN  IF OptsIs(uv.opt, TombStone)
        THEN <<uv.opt>> \o [i \in 1..(outputSize - 1) |-> 0]
        ELSE IF OptsIs(uv.opt, Expirable)
        THEN <<uv.opt>> \o uv.value \o PutUint64(uv.expiry, 8)
        ELSE <<uv.opt>> \o uv.value

tombstonePacked == pack(tombstoneUnpacked)

\* unpackedValue.isExpired at the time t.
isExpired(uv, t) == OptsIs(uv.opt, Expirable) /\ t > uv.expiry

(***************************************************************************)
(* The storage backend (KiwiStorage) over one LSM tree.                    *)
(***************************************************************************)
\* The part of KiwiStorage.Get after the lookup returned packed: an error is passed on, a
\* tombstone or an expired record is not found.
GetUnpacked(packed, t) ==
    LET u == unpack(packed.val)
    IN  IF packed.kind # "ok"
        THEN packed
        ELSE IF u.err
        THEN [kind |-> "corrupt_data", val |-> <<>>]
        ELSE IF OptsIs(u.uv.opt, TombStone) \/ isExpired(u.uv, t)
        THEN [kind |-> "not_found", val |-> <<>>]
        ELSE [kind |-> "ok", val |-> u.uv.value]

\* KiwiStorage.Get: the unpacked value of the key.
KiwiStorageGet(l, key, t) == GetUnpacked(LSMTreeGet(l, key), t)

\* The existence checks of a SetCommand.
allExistenceChecks == {"noCheck", "ifNotExists", "ifExists"}

\* SetResult.
SetResult(previousValue, hasPreviousValue, couldSet, err) ==
    [previousValue |-> previousValue, hasPreviousValue |-> hasPreviousValue,
     couldSet |-> couldSet, err |-> err]

\* The end of KiwiStorage.Set: the error of the write w, or the result of the command.
SetReturn(cmd, prevValue, hasPrevValue, couldSet, packed, w) ==
    [lsm |-> w.lsm, dir |-> w.dir, flushed |-> w.flushed,
     applied |-> couldSet /\ Len(cmd.key) > 0, packed |-> packed,
     res |-> IF w.err # "none" THEN SetResult(<<>>, FALSE, FALSE, w.err)
             ELSE IF cmd.get THEN SetResult(prevValue, hasPrevValue, couldSet, "none")
             ELSE SetResult(<<>>, FALSE, couldSet, "none")]

\* KiwiStorage.Set after the previous record was looked up (got; not_found when the
\* command does not need it): builds the new record (KEEPTTL, expiry), decides couldSet
\* by the existence check and writes.  cmd.expiryTime 0 is the zero time.Time.
SetWithPrevious(l, d, cmd, t, io, bf, got) ==
    LET fetched == got.kind = "ok"
        prevValue == IF fetched THEN got.val ELSE <<>>
        u == unpack(prevValue)
        unpackedPrev == u.uv
        hasPrevValue == fetched /\ ~(OptsIs(unpackedPrev.opt, TombStone) \/ isExpired(unpackedPrev, t))
        valueToSet ==
            IF cmd.keepTtl /\ hasPrevValue /\ OptsIs(unpackedPrev.opt, Expirable)
                           /\ ~isExpired(unpackedPrev, t)
            THEN Unpacked(Expirable, cmd.value, unpackedPrev.expiry)
            ELSE IF cmd.expiryTime # 0
                 THEN Unpacked(Expirable, cmd.value, cmd.expiryTime)
                 ELSE Unpacked(0, cmd.value, 0)
        couldSet == \/ cmd.existence = "noCheck"
                    \/ cmd.existence = "ifNotExists" /\ ~hasPrevValue
                    \/ cmd.existence = "ifExists" /\ hasPrevValue
        unchanged == [lsm |-> l, dir |-> d, flushed |-> FALSE, applied |-> FALSE,
                      packed |-> <<>>]
    IN  IF got.kind \notin {"ok", "not_found"}
        THEN unchanged @@ [res |-> SetResult(<<>>, FALSE, FALSE, got.kind)]
        ELSE IF fetched /\ u.err
        THEN unchanged @@ [res |-> SetResult(<<>>, FALSE, FALSE, "corrupt_data")]
        ELSE SetReturn(cmd, prevValue, hasPrevValue, couldSet, pack(valueToSet),
                       IF couldSet
                       THEN LSMTreeSet(l, d, cmd.key, pack(valueToSet), io, bf)
                       ELSE [lsm |-> l, dir |-> d, err |-> "none", flushed |-> FALSE])

\* KiwiStorage.Set: rejects an unknown existence check, reads the previous record if the
\* command needs it (NX, XX, KEEPTTL, GET), then sets.
KiwiStorageSet(l, d, cmd, t, io, bf) ==
    IF cmd.existence \notin allExistenceChecks
    THEN [lsm |-> l, dir |-> d, flushed |-> FALSE, applied |-> FALSE, packed |-> <<>>,
          res |-> SetResult(<<>>, FALSE, FALSE, "invalid_input")]
    ELSE SetWithPrevious(l, d, cmd, t, io, bf,
                         IF cmd.existence # "noCheck" \/ cmd.keepTtl \/ cmd.get
                         THEN LSMTreeGet(l, cmd.key)
                         ELSE [kind |-> "not_found", val |-> <<>>])

\* KiwiStorage.Delete: swaps the key to a tombstone.
KiwiStorageDelete(l, d, key, io, bf) == LSMTreeSwap(l, d, key, tombstonePacked, io, bf)

\* KiwiStorage.Close.
KiwiStorageClose(l, d, io, bf, failing) == LSMTreeClose(l, d, io, bf, failing)

(***************************************************************************)
(* The state.                                                              *)
(***************************************************************************)
VARIABLES
    lsm,            \* the LSMTree: memTable, latestDiskTable, diskTables
    dir,            \* the table directory: file name -> segment file
    opened,         \* NewLSMTree returned a store
    last,           \* the last call made and what it returned
    closeCalled,    \* Close has returned on the current store
    written,        \* history: key -> the value of the last set/swap applied to it
    nWrites,        \* history: the number of set/swap calls applied to a memtable
    nFlushes,       \* history: the number of flushes that installed a segment
    faultBudget,    \* the number of I/O failures that may still be injected
    reopens,        \* the number of times the directory was opened again
    lossy,          \* history: a store was dropped with pairs still in its memtable
    wroteSinceOpen, \* history: a set/swap was applied since the store was opened
    now,            \* time.Now(), in nanoseconds
    callers,        \* the goroutines that call the store: position, call, result
    writeLog,       \* history: key -> the values written to it, in the order applied
    returned,       \* history: key -> how many writes of writeLog[key] had returned
    hcc             \* the HyperClock cache: list, index, buckets, hands

vars == <<lsm, dir, opened, last, closeCalled, written, nWrites, nFlushes, faultBudget, reopens,
          lossy, wroteSinceOpen, now, callers, writeLog, returned, hcc>>

\* The result of a call that returns a value or an error kind.
Result(kind, val) == [kind |-> kind, val |-> val]

\* The record of a call: the operation, its arguments, its result and, for Close, the
\* joined errors.
Call(op, key, value, res, errs) ==
    [op |-> op, key |-> key, value |-> value, res |-> res, errs |-> errs]

\* The directory of a table that has no segment files.
EmptyDir == <<>>

\* The value of lsm while no store exists (NewLSMTree returned nil).
NoStore == [memTable |-> NewMemTable, latestDiskTable |-> 0, diskTables |-> <<>>]

\* The goroutines that call the store concurrently.
Procs == {1, 2}

\* A goroutine that is in no call of the store.
IdleCaller ==
    [pc |-> "idle", op |-> "none", key |-> <<>>, value |-> <<>>, floor |-> 0, seq |-> 0,
     live |-> FALSE, res |-> Result("ok", <<>>)]

IdleCallers == [p \in Procs |-> IdleCaller]

\* The value of hcc while no cache was constructed.
NoCache == <<>>

\* The state after NewLSMTree on an empty table directory.
Init ==
    /\ dir = EmptyDir
    /\ lsm = NewLSMTree(EmptyDir, <<>>).lsm
    /\ opened = TRUE
    /\ last = Call("open", <<>>, <<>>, Result("ok", <<>>), {})
    /\ closeCalled = FALSE
    /\ written = <<>>
    /\ nWrites = 0
    /\ nFlushes = 0
    /\ faultBudget = 0
    /\ reopens = 0
    /\ lossy = FALSE
    /\ wroteSinceOpen = FALSE
    /\ now = 0
    /\ callers = IdleCallers
    /\ writeLog = <<>>
    /\ returned = <<>>
    /\ hcc = NoCache

\* The outcomes of the file operations of a flush that the fault budget still allows.
IoChoices(attempted) == IF attempted /\ faultBudget > 0 THEN FlushIO ELSE {"ok"}

\* A flush of the memtable m would be attempted and the directory has room for its segment.
FlushAllowed(l, m, shouldFlush) ==
    (shouldFlush /\ Len(MemTablePairs(m)) > 0) => l.latestDiskTable < MaxSegments

\* A caller invokes LSMTree.Set(key, value).
SetStep ==
    /\ opened
    /\ nWrites < MaxWrites
    /\ \E w \in Writes \cup {<<EmptyKey, v>> : v \in Values} :
         LET key == w[1]
             value == w[2]
             m == MemTableSet(lsm.memTable, key, value)
             flushing == Len(key) > 0 /\ m.shouldFlush
         IN  /\ FlushAllowed(lsm, m.memTable, flushing)
             /\ \E io \in IoChoices(flushing), bf \in BloomChoices(MemTablePairs(m.memTable)) :
                  \E r \in {LSMTreeSet(lsm, dir, key, value, io, bf)} :
                      /\ lsm' = r.lsm
                      /\ dir' = r.dir
                      /\ last' = Call("set", key, value, Result(r.err, <<>>), {})
                      /\ written' = IF Len(key) > 0 THEN MapPut(written, key, value)
                                    ELSE written
                      /\ wroteSinceOpen' = (wroteSinceOpen \/ Len(key) > 0)
                      /\ nWrites' = IF Len(key) > 0 THEN nWrites + 1 ELSE nWrites
                      /\ nFlushes' = IF r.flushed THEN nFlushes + 1 ELSE nFlushes
                      /\ faultBudget' = IF io # "ok" THEN faultBudget - 1 ELSE faultBudget
    /\ UNCHANGED <<opened, closeCalled, reopens, lossy, now>>
    /\ UNCHANGED <<callers, writeLog, returned, hcc>>

\* A caller invokes LSMTree.Swap(key, value).
SwapStep ==
    /\ opened
    /\ nWrites < MaxWrites
    /\ \E w \in Writes :
         LET key == w[1]
             value == w[2]
             m == MemTableSwap(lsm.memTable, key, value)
             lookupFails == ~m.found /\ lookupDiskTables(lsm, key).kind \notin {"ok", "not_found"}
             flushing == m.shouldFlush /\ ~lookupFails
         IN  /\ FlushAllowed(lsm, m.memTable, flushing)
             /\ \E io \in IoChoices(flushing), bf \in BloomChoices(MemTablePairs(m.memTable)) :
                  \E r \in {LSMTreeSwap(lsm, dir, key, value, io, bf)} :
                      /\ lsm' = r.lsm
                      /\ dir' = r.dir
                      /\ last' = Call("swap", key, value, r.res, {})
                      /\ written' = MapPut(written, key, value)
                      /\ wroteSinceOpen' = TRUE
                      /\ nWrites' = nWrites + 1
                      /\ nFlushes' = IF r.flushed THEN nFlushes + 1 ELSE nFlushes
                      /\ faultBudget' = IF io # "ok" THEN faultBudget - 1 ELSE faultBudget
    /\ UNCHANGED <<opened, closeCalled, reopens, lossy, now>>
    /\ UNCHANGED <<callers, writeLog, returned, hcc>>

\* A caller invokes LSMTree.Get(key).
GetStep ==
    /\ opened
    /\ \E key \in Keys \cup {EmptyKey} :
         last' = Call("get", key, <<>>, LSMTreeGet(lsm, key), {})
    /\ UNCHANGED <<lsm, dir, opened, closeCalled, written, nWrites, nFlushes, faultBudget, reopens,
                   lossy, wroteSinceOpen, now>>
    /\ UNCHANGED <<callers, writeLog, returned, hcc>>

\* The sets of segments whose file close may fail within the fault budget.
CloseFailures(l) ==
    IF faultBudget > 0
    THEN {{}} \cup {{id} : id \in DOMAIN l.diskTables}
    ELSE {{}}

\* A caller invokes LSMTree.Close().
CloseStep ==
    /\ opened
    /\ LET flushing == Len(MemTablePairs(lsm.memTable)) > 0
       IN  /\ FlushAllowed(lsm, lsm.memTable, flushing)
           /\ \E io \in IoChoices(flushing), bf \in BloomChoices(MemTablePairs(lsm.memTable)),
                 failing \in CloseFailures(lsm) :
                \E r \in {LSMTreeClose(lsm, dir, io, bf, failing)} :
                    /\ io = "ok" \/ failing = {}
                    /\ lsm' = r.lsm
                    /\ dir' = r.dir
                    /\ last' = Call("close", <<>>, <<>>,
                                    Result(IF r.errs = {} THEN "none" ELSE "io", <<>>), r.errs)
                    /\ nFlushes' = IF r.flushed THEN nFlushes + 1 ELSE nFlushes
                    /\ faultBudget' = IF io # "ok" \/ failing # {} THEN faultBudget - 1 ELSE faultBudget
    /\ closeCalled' = TRUE
    /\ UNCHANGED <<opened, written, nWrites, reopens, lossy, wroteSinceOpen, now>>
    /\ UNCHANGED <<callers, writeLog, returned, hcc>>

\* The closed store is dropped and NewLSMTree opens the same directory again.
ReopenStep ==
    /\ opened
    /\ closeCalled
    /\ reopens < MaxReopens
    /\ \E order \in MapOrders(DOMAIN WalkDir(dir, DOMAIN dir, <<>>, {}).diskTables) :
         \E r \in {NewLSMTree(dir, order)} :
             /\ lsm' = IF r.err = "none" THEN r.lsm ELSE NoStore
             /\ opened' = (r.err = "none")
             /\ last' = Call("open", <<>>, <<>>, Result(r.err, <<>>), {})
    /\ closeCalled' = FALSE
    /\ reopens' = reopens + 1
    /\ lossy' = (lossy \/ Len(MemTablePairs(lsm.memTable)) > 0)
    /\ wroteSinceOpen' = FALSE
    /\ UNCHANGED <<dir, written, nWrites, nFlushes, faultBudget, now>>
    /\ UNCHANGED <<callers, writeLog, returned, hcc>>

Next ==
    \/ SetStep
    \/ SwapStep
    \/ GetStep
    \/ CloseStep
    \/ ReopenStep

\* The LSM tree of one table, opened on an empty directory; file operations succeed.
Spec == Init /\ [][Next]_vars

\* As Init, with a budget of I/O failures and no second opening of the directory.
InitIO ==
    /\ dir = EmptyDir
    /\ lsm = NewLSMTree(EmptyDir, <<>>).lsm
    /\ opened = TRUE
    /\ last = Call("open", <<>>, <<>>, Result("ok", <<>>), {})
    /\ closeCalled = FALSE
    /\ written = <<>>
    /\ nWrites = 0
    /\ nFlushes = 0
    /\ faultBudget = MaxFaults
    /\ reopens = 0
    /\ lossy = FALSE
    /\ wroteSinceOpen = FALSE
    /\ now = 0
    /\ callers = IdleCallers
    /\ writeLog = <<>>
    /\ returned = <<>>
    /\ hcc = NoCache

NextIO ==
    \/ SetStep
    \/ SwapStep
    \/ GetStep
    \/ CloseStep

\* The LSM tree of one table whose segment writes, opens and closes may fail.
SpecIO == InitIO /\ [][NextIO]_vars

(***************************************************************************)
(* Opening a table directory that already holds segment files.             *)
(***************************************************************************)
\* The batches held by the segment files found in the directory.
FoundBatches == {<<[Key |-> <<2>>, Value |-> <<1>>]>>}

\* The segment files that may be found: any id, any previous-part id.
FoundFiles ==
    {writeSSTable(prev, id, pairs, [present |-> FALSE, accepts |-> {}]) :
        prev \in 0..MaxFiles, id \in 1..MaxFiles, pairs \in FoundBatches}

\* The table directories that may be found: up to MaxFiles files "n.sst".
FoundDirs ==
    UNION {[names -> FoundFiles] : names \in SUBSET (1..MaxFiles)}

\* Before NewLSMTree is called on a directory found on disk.
InitOpen ==
    /\ dir \in FoundDirs
    /\ lsm = NoStore
    /\ opened = FALSE
    /\ last = Call("none", <<>>, <<>>, Result("ok", <<>>), {})
    /\ closeCalled = FALSE
    /\ written = <<>>
    /\ nWrites = 0
    /\ nFlushes = 0
    /\ faultBudget = 0
    /\ reopens = 0
    /\ lossy = FALSE
    /\ wroteSinceOpen = FALSE
    /\ now = 0
    /\ callers = IdleCallers
    /\ writeLog = <<>>
    /\ returned = <<>>
    /\ hcc = NoCache

\* NewLSMTree is called on the directory.
OpenStep ==
    /\ ~opened
    /\ last.op = "none"
    /\ \E order \in MapOrders(DOMAIN WalkDir(dir, DOMAIN dir, <<>>, {}).diskTables) :
         \E r \in {NewLSMTree(dir, order)} :
             /\ lsm' = IF r.err = "none" THEN r.lsm ELSE NoStore
             /\ opened' = (r.err = "none")
             /\ last' = Call("open", <<>>, <<>>, Result(r.err, <<>>), {})
    /\ UNCHANGED <<dir, closeCalled, written, nWrites, nFlushes, faultBudget, reopens,
                   lossy, wroteSinceOpen, now>>
    /\ UNCHANGED <<callers, writeLog, returned, hcc>>

NextOpen ==
    \/ OpenStep
    \/ GetStep

\* A store opened on a directory of segment files of any shape, then read.
SpecOpen == InitOpen /\ [][NextOpen]_vars

(***************************************************************************)
(* The storage backend driven by its callers.                              *)
(***************************************************************************)
\* The latest time of a run.
MaxTime == 2
\* The expiry time of the SET commands that carry one.
ExpiryAt == 1

\* SetCommand.
SetCommand(key, expiryTime, existence, keepTtl, get) ==
    [key |-> key, value |-> <<1>>, expiryTime |-> expiryTime, existence |-> existence,
     keepTtl |-> keepTtl, get |-> get]

\* The key the callers expire, delete and set conditionally.
HotKey == <<2>>

\* The SET commands the callers issue: a plain SET of every key, and on the hot key one
\* SET per option (expiry, NX, XX, KEEPTTL, GET).
SetCommands ==
    {SetCommand(k, 0, "noCheck", FALSE, FALSE) : k \in Keys}
    \cup {SetCommand(HotKey, ExpiryAt, "noCheck", FALSE, FALSE),
          SetCommand(HotKey, 0, "ifNotExists", FALSE, FALSE),
          SetCommand(HotKey, 0, "ifExists", FALSE, FALSE),
          SetCommand(HotKey, 0, "noCheck", TRUE, FALSE),
          SetCommand(HotKey, 0, "noCheck", FALSE, TRUE)}

\* NewKiwiStorage on an empty data directory, at time 1.
InitKiwi ==
    /\ dir = EmptyDir
    /\ lsm = NewLSMTree(EmptyDir, <<>>).lsm
    /\ opened = TRUE
    /\ last = Call("open", <<>>, <<>>, Result("ok", <<>>), {})
    /\ closeCalled = FALSE
    /\ written = <<>>
    /\ nWrites = 0
    /\ nFlushes = 0
    /\ faultBudget = 0
    /\ reopens = 0
    /\ lossy = FALSE
    /\ wroteSinceOpen = FALSE
    /\ now = 1
    /\ callers = IdleCallers
    /\ writeLog = <<>>
    /\ returned = <<>>
    /\ hcc = NoCache

\* A caller invokes KiwiStorage.Set(cmd) with one of the given commands, while fewer
\* than maxWrites writes were applied.
KiwiSetOf(cmds, maxWrites) ==
    /\ opened
    /\ nWrites < maxWrites
    /\ \E cmd \in cmds :
         \E dry \in {KiwiStorageSet(lsm, dir, cmd, now, "ok", [present |-> FALSE, accepts |-> {}])} :
         \E m \in {MemTableSet(lsm.memTable, cmd.key, dry.packed)} :
             /\ FlushAllowed(lsm, m.memTable, dry.applied /\ m.shouldFlush)
             /\ \E io \in IoChoices(dry.applied /\ m.shouldFlush),
                   bf \in BloomChoices(IF dry.applied THEN MemTablePairs(m.memTable) ELSE <<>>) :
                  \E r \in {KiwiStorageSet(lsm, dir, cmd, now, io, bf)} :
                      /\ lsm' = r.lsm
                      /\ dir' = r.dir
                      /\ last' = Call("kset", cmd.key, cmd, r.res, {})
                      /\ written' = IF r.applied THEN MapPut(written, cmd.key, r.packed)
                                    ELSE written
                      /\ wroteSinceOpen' = (wroteSinceOpen \/ r.applied)
                      /\ nWrites' = IF r.applied THEN nWrites + 1 ELSE nWrites
                      /\ nFlushes' = IF r.flushed THEN nFlushes + 1 ELSE nFlushes
                      /\ faultBudget' = IF io # "ok" THEN faultBudget - 1 ELSE faultBudget
    /\ UNCHANGED <<opened, closeCalled, reopens, lossy, now>>
    /\ UNCHANGED <<callers, writeLog, returned, hcc>>

\* A caller invokes KiwiStorage.Set(cmd).
KiwiSetStep == KiwiSetOf(SetCommands, MaxWrites)

\* A caller invokes KiwiStorage.Delete(key).
KiwiDeleteStep ==
    /\ opened
    /\ nWrites < MaxWrites
    /\ \E key \in {HotKey} :
         LET m == MemTableSwap(lsm.memTable, key, tombstonePacked)
             lookupFails == ~m.found /\ lookupDiskTables(lsm, key).kind \notin {"ok", "not_found"}
             flushing == m.shouldFlush /\ ~lookupFails
         IN  /\ FlushAllowed(lsm, m.memTable, flushing)
             /\ \E io \in IoChoices(flushing), bf \in BloomChoices(MemTablePairs(m.memTable)) :
                  \E r \in {KiwiStorageDelete(lsm, dir, key, io, bf)} :
                      /\ lsm' = r.lsm
                      /\ dir' = r.dir
                      /\ last' = Call("kdelete", key, <<>>,
                                      Result(IF r.res.kind = "ok" THEN "none" ELSE r.res.kind,
                                             <<>>), {})
                      /\ written' = MapPut(written, key, tombstonePacked)
                      /\ wroteSinceOpen' = TRUE
                      /\ nWrites' = nWrites + 1
                      /\ nFlushes' = IF r.flushed THEN nFlushes + 1 ELSE nFlushes
                      /\ faultBudget' = IF io # "ok" THEN faultBudget - 1 ELSE faultBudget
    /\ UNCHANGED <<opened, closeCalled, reopens, lossy, now>>
    /\ UNCHANGED <<callers, writeLog, returned, hcc>>

\* A caller invokes KiwiStorage.Get(key).
KiwiGetStep ==
    /\ opened
    /\ \E key \in Keys :
         last' = Call("kget", key, <<>>, KiwiStorageGet(lsm, key, now), {})
    /\ UNCHANGED <<lsm, dir, opened, closeCalled, written, nWrites, nFlushes, faultBudget,
                   reopens, lossy, wroteSinceOpen, now>>
    /\ UNCHANGED <<callers, writeLog, returned, hcc>>

\* A caller invokes KiwiStorage.Close().
KiwiCloseStep ==
    /\ opened
    /\ LET flushing == Len(MemTablePairs(lsm.memTable)) > 0
       IN  /\ FlushAllowed(lsm, lsm.memTable, flushing)
           /\ \E io \in IoChoices(flushing), bf \in BloomChoices(MemTablePairs(lsm.memTable)),
                 failing \in CloseFailures(lsm) :
                \E r \in {KiwiStorageClose(lsm, dir, io, bf, failing)} :
                    /\ io = "ok" \/ failing = {}
                    /\ lsm' = r.lsm
                    /\ dir' = r.dir
                    /\ last' = Call("kclose", <<>>, <<>>,
                                    Result(IF r.errs = {} THEN "none" ELSE "io", <<>>), r.errs)
                    /\ nFlushes' = IF r.flushed THEN nFlushes + 1 ELSE nFlushes
                    /\ faultBudget' = IF io # "ok" \/ failing # {} THEN faultBudget - 1 ELSE faultBudget
    /\ closeCalled' = TRUE
    /\ UNCHANGED <<opened, written, nWrites, reopens, lossy, wroteSinceOpen, now>>
    /\ UNCHANGED <<callers, writeLog, returned, hcc>>

\* Time passes.
TickStep ==
    /\ now < MaxTime
    /\ now' = now + 1
    /\ last' = Call("tick", <<>>, <<>>, Result("ok", <<>>), {})
    /\ UNCHANGED <<lsm, dir, opened, closeCalled, written, nWrites, nFlushes, faultBudget,
                   reopens, lossy, wroteSinceOpen>>
    /\ UNCHANGED <<callers, writeLog, returned, hcc>>

NextKiwi ==
    \/ KiwiSetStep
    \/ KiwiDeleteStep
    \/ KiwiGetStep
    \/ KiwiCloseStep
    \/ TickStep

\* The storage backend on an empty data directory; file operations succeed.
SpecKiwi == InitKiwi /\ [][NextKiwi]_vars

\* The last record written for the key is a live one at the time t: neither a tombstone
\* nor expired.
WrittenLive(k, t) ==
    /\ k \in DOMAIN written
    /\ ~OptsIs(unpack(written[k]).uv.opt, TombStone)
    /\ ~isExpired(unpack(written[k]).uv, t)

(***************************************************************************)
(* The storage backend under SET commands with expiry and KEEPTTL.         *)
(***************************************************************************)
\* The most writes of a run of SET commands with KEEPTTL.
MaxTtlWrites == 5
\* A second expiry time, after ExpiryAt.
LaterExpiry == 2

\* The SET commands of the KEEPTTL runs: a plain SET of every key and, on the hot key, a
\* SET with an expiry, a SET with KEEPTTL and a SET with KEEPTTL and a later expiry.
TtlCommands ==
    {SetCommand(k, 0, "noCheck", FALSE, FALSE) : k \in Keys}
    \cup {SetCommand(HotKey, ExpiryAt, "noCheck", FALSE, FALSE),
          SetCommand(HotKey, 0, "noCheck", TRUE, FALSE),
          SetCommand(HotKey, LaterExpiry, "noCheck", TRUE, FALSE)}

\* A caller invokes KiwiStorage.Set with a command of the KEEPTTL runs.
TtlSetStep == KiwiSetOf(TtlCommands, MaxTtlWrites)

NextTtl ==
    \/ TtlSetStep
    \/ KiwiDeleteStep
    \/ TickStep

\* The storage backend under plain, expiring and KEEPTTL SET commands and deletes.
SpecTtl == InitKiwi /\ [][NextTtl]_vars

(***************************************************************************)
(* The LSM tree called by concurrent goroutines.  l.mux is a sync.RWMutex: *)
(* Get holds it shared and Set holds it exclusively, both until the call   *)
(* returns (defer).  A call is invoked, takes the lock, runs its body and  *)
(* unlocks, and then returns to its caller.                                *)
(***************************************************************************)
\* The most Set calls the goroutines make in a run.
MaxCallerWrites == 4

\* The keys the goroutines set and get.
CallerKeys == Keys

\* The value of the n-th Set that was invoked: its bytes name the call.
ShortValue(n) == <<n>>

LongValue(n) == <<n, n, n, n, n, n, n, n>>

\* The calls that take the lock exclusively.
WriteOps == {"set", "kset", "kdelete"}

\* The goroutines whose write was invoked and is not yet applied.
PendingWrites ==
    {p \in Procs : callers[p].op \in WriteOps /\ callers[p].pc \in {"waiting", "locked", "read"}}

\* The state after NewLSMTree on an empty directory, with every goroutine idle.
InitCallers ==
    /\ dir = EmptyDir
    /\ lsm = NewLSMTree(EmptyDir, <<>>).lsm
    /\ opened = TRUE
    /\ last = Call("open", <<>>, <<>>, Result("ok", <<>>), {})
    /\ closeCalled = FALSE
    /\ written = <<>>
    /\ nWrites = 0
    /\ nFlushes = 0
    /\ faultBudget = 0
    /\ reopens = 0
    /\ lossy = FALSE
    /\ wroteSinceOpen = FALSE
    /\ now = 1
    /\ callers = IdleCallers
    /\ writeLog = [k \in Keys |-> <<>>]
    /\ returned = [k \in Keys |-> 0]
    /\ hcc = NoCache

\* A goroutine calls LSMTree.Set(key, value).
InvokeSet ==
    /\ opened
    /\ nWrites + Cardinality(PendingWrites) < MaxCallerWrites
    /\ \E p \in Procs, key \in CallerKeys, long \in BOOLEAN :
         LET n == nWrites + Cardinality(PendingWrites) + 1
         IN  /\ callers[p].pc = "idle"
             /\ long => key = HotKey
             /\ callers' = [callers EXCEPT ![p] =
                               [IdleCaller EXCEPT !.pc = "waiting", !.op = "set", !.key = key,
                                                  !.value = IF long THEN LongValue(n)
                                                            ELSE ShortValue(n)]]
    /\ UNCHANGED <<lsm, dir, opened, last, closeCalled, written, nWrites, nFlushes, faultBudget,
                   reopens, lossy, wroteSinceOpen, now, writeLog, returned, hcc>>

\* A goroutine calls LSMTree.Get(HotKey); floor is the number of writes of the key that
\* had returned to their callers before the call.
InvokeGet ==
    /\ opened
    /\ \E p \in Procs, key \in CallerKeys \cap {HotKey} :
         /\ callers[p].pc = "idle"
         /\ callers' = [callers EXCEPT ![p] =
                           [IdleCaller EXCEPT !.pc = "waiting", !.op = "get", !.key = key,
                                              !.floor = returned[key]]]
    /\ UNCHANGED <<lsm, dir, opened, last, closeCalled, written, nWrites, nFlushes, faultBudget,
                   reopens, lossy, wroteSinceOpen, now, writeLog, returned, hcc>>

\* sync.RWMutex: Lock waits until no goroutine holds the lock, RLock until no writer does.
MayLock(p) ==
    \A q \in Procs \ {p} :
        callers[q].pc \in {"locked", "read"} =>
            callers[p].op \notin WriteOps /\ callers[q].op \notin WriteOps

\* A waiting goroutine gets the lock (l.mux.Lock / l.mux.RLock returns).
AcquireStep ==
    /\ \E p \in Procs :
         /\ callers[p].pc = "waiting"
         /\ MayLock(p)
         /\ callers' = [callers EXCEPT ![p].pc = "locked"]
    /\ UNCHANGED <<lsm, dir, opened, last, closeCalled, written, nWrites, nFlushes, faultBudget,
                   reopens, lossy, wroteSinceOpen, now, writeLog, returned, hcc>>

\* The body of LSMTree.Set under the lock, and the deferred Unlock.
SetBody ==
    /\ \E p \in Procs :
         LET c == callers[p]
             m == MemTableSet(lsm.memTable, c.key, c.value)
         IN  /\ c.pc = "locked"
             /\ c.op = "set"
             /\ FlushAllowed(lsm, m.memTable, m.shouldFlush)
             /\ \E bf \in BloomChoices(MemTablePairs(m.memTable)) :
                  \E r \in {LSMTreeSet(lsm, dir, c.key, c.value, "ok", bf)} :
                      /\ lsm' = r.lsm
                      /\ dir' = r.dir
                      /\ written' = MapPut(written, c.key, c.value)
                      /\ writeLog' = [writeLog EXCEPT ![c.key] = Append(@, c.value)]
                      /\ callers' = [callers EXCEPT ![p].pc = "done",
                                                    ![p].floor = Len(writeLog[c.key]) + 1,
                                                    ![p].res = Result(r.err, <<>>)]
                      /\ nFlushes' = IF r.flushed THEN nFlushes + 1 ELSE nFlushes
    /\ nWrites' = nWrites + 1
    /\ wroteSinceOpen' = TRUE
    /\ UNCHANGED <<opened, last, closeCalled, faultBudget, reopens, lossy, now, returned, hcc>>

\* The body of LSMTree.Get under the shared lock, and the deferred RUnlock.
GetBody ==
    /\ \E p \in Procs :
         /\ callers[p].pc = "locked"
         /\ callers[p].op = "get"
         /\ callers' = [callers EXCEPT ![p].pc = "done",
                                       ![p].res = LSMTreeGet(lsm, callers[p].key)]
    /\ UNCHANGED <<lsm, dir, opened, last, closeCalled, written, nWrites, nFlushes, faultBudget,
                   reopens, lossy, wroteSinceOpen, now, writeLog, returned, hcc>>

\* The call returns to the goroutine that made it; a write that returned raises the
\* floor of the gets invoked from now on.
ReturnStep ==
    /\ \E p \in Procs :
         LET c == callers[p]
         IN  /\ c.pc = "done"
             /\ callers' = [callers EXCEPT ![p] = IdleCaller]
             /\ returned' = IF c.op \in WriteOps /\ c.floor > returned[c.key]
                            THEN [returned EXCEPT ![c.key] = c.floor]
                            ELSE returned
    /\ UNCHANGED <<lsm, dir, opened, last, closeCalled, written, nWrites, nFlushes, faultBudget,
                   reopens, lossy, wroteSinceOpen, now, writeLog, hcc>>

NextCallers ==
    \/ InvokeSet
    \/ InvokeGet
    \/ AcquireStep
    \/ SetBody
    \/ GetBody
    \/ ReturnStep

\* The LSM tree of one table under two goroutines that set and get concurrently.
SpecCallers == InitCallers /\ [][NextCallers]_vars

(***************************************************************************)
(* The storage backend called by concurrent goroutines.  ks.mux is a       *)
(* sync.RWMutex: Get holds it shared, Set and Delete hold it exclusively.  *)
(* Under the lock Set first reads the previous record (db.Get) and then    *)
(* decides and writes (db.Set): two steps of the goroutine.                *)
(***************************************************************************)
\* The most Set and Delete calls whose body runs in a run.
MaxKiwiCalls == 5

\* The commands goroutine p sends: a plain SET of each key and SET HotKey NX, with a
\* value that names the goroutine.
CallerCommands(p) ==
    {[SetCommand(k, 0, "noCheck", FALSE, FALSE) EXCEPT !.value = <<p>>] : k \in Keys}
    \cup {[SetCommand(HotKey, 0, "ifNotExists", FALSE, FALSE) EXCEPT !.value = <<p>>]}

\* A goroutine calls KiwiStorage.Set(cmd).
InvokeKiwiSet ==
    /\ opened
    /\ nWrites + Cardinality(PendingWrites) < MaxKiwiCalls
    /\ \E p \in Procs :
         \E cmd \in CallerCommands(p) :
             /\ callers[p].pc = "idle"
             /\ callers' = [callers EXCEPT ![p] =
                               [IdleCaller EXCEPT !.pc = "waiting", !.op = "kset",
                                                  !.key = cmd.key, !.value = cmd]]
    /\ UNCHANGED <<lsm, dir, opened, last, closeCalled, written, nWrites, nFlushes, faultBudget,
                   reopens, lossy, wroteSinceOpen, now, writeLog, returned, hcc>>

\* A goroutine calls KiwiStorage.Delete(HotKey).
InvokeKiwiDelete ==
    /\ opened
    /\ nWrites + Cardinality(PendingWrites) < MaxKiwiCalls
    /\ \E p \in Procs :
         /\ callers[p].pc = "idle"
         /\ callers' = [callers EXCEPT ![p] =
                           [IdleCaller EXCEPT !.pc = "waiting", !.op = "kdelete",
                                              !.key = HotKey]]
    /\ UNCHANGED <<lsm, dir, opened, last, closeCalled, written, nWrites, nFlushes, faultBudget,
                   reopens, lossy, wroteSinceOpen, now, writeLog, returned, hcc>>

\* A goroutine calls KiwiStorage.Get(HotKey).
InvokeKiwiGet ==
    /\ opened
    /\ \E p \in Procs :
         /\ callers[p].pc = "idle"
         /\ callers' = [callers EXCEPT ![p] =
                           [IdleCaller EXCEPT !.pc = "waiting", !.op = "kget", !.key = HotKey]]
    /\ UNCHANGED <<lsm, dir, opened, last, closeCalled, written, nWrites, nFlushes, faultBudget,
                   reopens, lossy, wroteSinceOpen, now, writeLog, returned, hcc>>

\* KiwiStorage.Set under the lock, first part: the previous record is read if the command
\* needs it.
KiwiSetRead ==
    /\ \E p \in Procs :
         LET cmd == callers[p].value
         IN  /\ callers[p].pc = "locked"
             /\ callers[p].op = "kset"
             /\ callers' = [callers EXCEPT
                    ![p].pc = "read",
                    ![p].res = IF cmd.existence # "noCheck" \/ cmd.keepTtl \/ cmd.get
                               THEN LSMTreeGet(lsm, cmd.key)
                               ELSE Result("not_found", <<>>)]
    /\ UNCHANGED <<lsm, dir, opened, last, closeCalled, written, nWrites, nFlushes, faultBudget,
                   reopens, lossy, wroteSinceOpen, now, writeLog, returned, hcc>>

\* KiwiStorage.Set under the lock, second part: the record is built, couldSet is decided,
\* the record is written, and the deferred Unlock runs.  seq is the position of the body
\* among the bodies run and live tells whether the key had a live value before it.
KiwiSetWrite ==
    /\ \E p \in Procs :
         LET c == callers[p]
             m == MemTableSet(lsm.memTable, c.key, pack(Unpacked(0, c.value.value, 0)))
         IN  /\ c.pc = "read"
             /\ c.op = "kset"
             /\ \E bf \in BloomChoices(MemTablePairs(m.memTable)) :
                  \E r \in {SetWithPrevious(lsm, dir, c.value, now, "ok", bf, c.res)} :
                      /\ FlushAllowed(lsm, m.memTable, r.applied /\ m.shouldFlush)
                      /\ lsm' = r.lsm
                      /\ dir' = r.dir
                      /\ written' = IF r.applied THEN MapPut(written, c.key, r.packed)
                                    ELSE written
                      /\ callers' = [callers EXCEPT ![p].pc = "done", ![p].res = r.res,
                                                    ![p].seq = nWrites + 1,
                                                    ![p].live = WrittenLive(c.key, now)]
                      /\ nFlushes' = IF r.flushed THEN nFlushes + 1 ELSE nFlushes
    /\ nWrites' = nWrites + 1
    /\ wroteSinceOpen' = TRUE
    /\ UNCHANGED <<opened, last, closeCalled, faultBudget, reopens, lossy, now, writeLog,
                   returned, hcc>>

\* The body of KiwiStorage.Delete under the lock, and the deferred Unlock.
KiwiDeleteBody ==
    /\ \E p \in Procs :
         LET c == callers[p]
             m == MemTableSwap(lsm.memTable, c.key, tombstonePacked)
         IN  /\ c.pc = "locked"
             /\ c.op = "kdelete"
             /\ FlushAllowed(lsm, m.memTable, m.shouldFlush)
             /\ \E bf \in BloomChoices(MemTablePairs(m.memTable)) :
                  \E r \in {KiwiStorageDelete(lsm, dir, c.key, "ok", bf)} :
                      /\ lsm' = r.lsm
                      /\ dir' = r.dir
                      /\ written' = MapPut(written, c.key, tombstonePacked)
                      /\ callers' = [callers EXCEPT ![p].pc = "done", ![p].res = r.res,
                                                    ![p].seq = nWrites + 1]
                      /\ nFlushes' = IF r.flushed THEN nFlushes + 1 ELSE nFlushes
    /\ nWrites' = nWrites + 1
    /\ wroteSinceOpen' = TRUE
    /\ UNCHANGED <<opened, last, closeCalled, faultBudget, reopens, lossy, now, writeLog,
                   returned, hcc>>

\* The body of KiwiStorage.Get under the shared lock, and the deferred RUnlock.
KiwiGetBody ==
    /\ \E p \in Procs :
         /\ callers[p].pc = "locked"
         /\ callers[p].op = "kget"
         /\ callers' = [callers EXCEPT ![p].pc = "done",
                                       ![p].res = KiwiStorageGet(lsm, callers[p].key, now)]
    /\ UNCHANGED <<lsm, dir, opened, last, closeCalled, written, nWrites, nFlushes, faultBudget,
                   reopens, lossy, wroteSinceOpen, now, writeLog, returned, hcc>>

NextKiwiCallers ==
    \/ InvokeKiwiSet
    \/ InvokeKiwiDelete
    \/ InvokeKiwiGet
    \/ AcquireStep
    \/ KiwiSetRead
    \/ KiwiSetWrite
    \/ KiwiDeleteBody
    \/ KiwiGetBody
    \/ ReturnStep

\* The storage backend under two goroutines that set, delete and get concurrently.
SpecKiwiCallers == InitCallers /\ [][NextKiwiCallers]_vars

(***************************************************************************)
(* The HyperClock cache (pkg/cache/hcc.go) over its doubly linked list.    *)
(* A list node is a heap object named by a positive number, 0 is nil; a    *)
(* node is [key, value, ref, expiresAt, next, prev].  A Go map is a        *)
(* function; ranging over a map visits its keys in an order the runtime    *)
(* picks.                                                                  *)
(***************************************************************************)
\* The largest capacity a cache is constructed with.
MaxCapacity == 2

\* The tickInterval the caches are constructed with, in units of the clock.
TickInterval == 2

CacheKeys == {1, 2, 3}

CacheValues == {1, 2}

\* The ttl arguments of Add.
Ttls == {0, 2}

\* The most calls of Add in a run.
MaxCacheAdds == 4

\* delete(m, k) on a Go map.
MapDelete(m, k) == [x \in DOMAIN m \ {k} |-> m[x]]

\* getTimeBucket: the timestamp rounded down to a multiple of tickInterval.
getTimeBucket(timestamp, tick) == (timestamp \div tick) * tick

\* NewHyperClock at time t: a capacity below 1 becomes 1.
NewHyperClock(capacity, tick, t) ==
    [capacity |-> IF capacity <= 0 THEN 1 ELSE capacity,
     hand |-> 0, index |-> <<>>, expiryBuckets |-> <<>>,
     nodes |-> <<>>, head |-> 0, tail |-> 0, size |-> 0,
     tickInterval |-> tick, reaperHand |-> getTimeBucket(t, tick)]

\* The node a list allocates next: the least name no live object has.
FreshNode(c) ==
    CHOOSE n \in 1..(Cardinality(DOMAIN c.nodes) + 1) :
        /\ n \notin DOMAIN c.nodes
        /\ \A m \in 1..(Cardinality(DOMAIN c.nodes) + 1) : m \notin DOMAIN c.nodes => n <= m

\* LinkedList.PushBack of an entry [key, value, ref, expiresAt]; the new node is the tail.
PushBack(c, entry) ==
    [c EXCEPT !.nodes = MapPut(IF c.tail # 0 THEN [c.nodes EXCEPT ![c.tail].next = FreshNode(c)]
                                             ELSE c.nodes,
                               FreshNode(c),
                               [key |-> entry.key, value |-> entry.value, ref |-> entry.ref,
                                expiresAt |-> entry.expiresAt, next |-> 0, prev |-> c.tail]),
                 !.head = IF c.tail # 0 THEN c.head ELSE FreshNode(c),
                 !.tail = FreshNode(c),
                 !.size = c.size + 1]

\* The nodes after LinkedList.Remove(n) relinked the neighbours of n and cleared n.
RemoveLinks(nodes, n) ==
    [i \in DOMAIN nodes |->
        IF i = n THEN [nodes[i] EXCEPT !.next = 0, !.prev = 0]
        ELSE [nodes[i] EXCEPT !.next = IF i = nodes[n].prev THEN nodes[n].next ELSE @,
                              !.prev = IF i = nodes[n].next THEN nodes[n].prev ELSE @]]

\* LinkedList.Remove(n).
ListRemove(c, n) ==
    [c EXCEPT !.nodes = RemoveLinks(c.nodes, n),
              !.head = IF c.nodes[n].prev # 0 THEN c.head ELSE c.nodes[n].next,
              !.tail = IF c.nodes[n].next # 0 THEN c.tail ELSE c.nodes[n].prev,
              !.size = c.size - 1]

\* addEntryToExpiryBucket: files the node under its key in the bucket of its expiry.
BucketPut(buckets, bucket, key, n) ==
    MapPut(buckets, bucket,
           MapPut(IF bucket \in DOMAIN buckets THEN buckets[bucket] ELSE <<>>, key, n))

addEntryToExpiryBucket(c, n) ==
    [c EXCEPT !.expiryBuckets =
        BucketPut(c.expiryBuckets, getTimeBucket(c.nodes[n].expiresAt, c.tickInterval),
                  c.nodes[n].key, n)]

\* delete(c.expiryBuckets[bucket], key): nothing happens if there is no such bucket.
BucketDelete(buckets, bucket, key) ==
    IF bucket \in DOMAIN buckets
    THEN [buckets EXCEPT ![bucket] = MapDelete(@, key)]
    ELSE buckets

\* HyperClock.Get without the expiry test.
HccGet_IgnoresExpiry(c, key, t) ==
    IF key \notin DOMAIN c.index
    THEN [hcc |-> c, value |-> 0, found |-> FALSE]
    ELSE [hcc |-> [c EXCEPT !.nodes[c.index[key]].ref = TRUE],
          value |-> c.nodes[c.index[key]].value, found |-> TRUE]

\* HyperClock.Get at time t: a miss if the key is absent or expired, else a hit that
\* stores true into ref.
HccGet(c, key, t) ==
    IF key \notin DOMAIN c.index \/ t > c.nodes[c.index[key]].expiresAt
    THEN [hcc |-> c, value |-> 0, found |-> FALSE]
    ELSE [hcc |-> [c EXCEPT !.nodes[c.index[key]].ref = TRUE],
          value |-> c.nodes[c.index[key]].value, found |-> TRUE]

\* What Add returns and did: evicted is the entry the eviction callback gets, with the
\* ref bit and the expiry test the hand found.
AddResult(c, evictionOccurred, outcome, evicted) ==
    [hcc |-> c, evictionOccurred |-> evictionOccurred, outcome |-> outcome,
     evicted |-> evicted]

NoEviction == [key |-> 0, value |-> 0, ref |-> FALSE, expired |-> FALSE]

\* Add of a key that is in the index, with the entry left in its old bucket.
AddUpdate_KeepsOldBucket(c, n, value, ttl, t) ==
    addEntryToExpiryBucket(
        [c EXCEPT !.nodes[n].value = value,
                  !.nodes[n].ref = FALSE,
                  !.nodes[n].expiresAt = t + ttl], n)

\* Add of a key that is in the index: the entry leaves its bucket, takes the value and
\* the new expiry, loses ref and is filed again.
AddUpdate(c, n, value, ttl, t) ==
    addEntryToExpiryBucket(
        [c EXCEPT !.expiryBuckets =
                      BucketDelete(@, getTimeBucket(c.nodes[n].expiresAt, c.tickInterval),
                                   c.nodes[n].key),
                  !.nodes[n].value = value,
                  !.nodes[n].ref = FALSE,
                  !.nodes[n].expiresAt = t + ttl], n)

\* Add of a new key below capacity: the entry is pushed to the back of the list, filed
\* and indexed; the hand is set if it was nil.
AddAppend(c, key, value, ttl, t) ==
    [addEntryToExpiryBucket(
         PushBack(c, [key |-> key, value |-> value, ref |-> FALSE, expiresAt |-> t + ttl]),
         FreshNode(c))
     EXCEPT !.index = MapPut(@, key, FreshNode(c)),
            !.hand = IF c.hand = 0 THEN FreshNode(c) ELSE c.hand]

\* The hand moves to the node after n, to the front of the list from the last node.
AdvanceHand(c, n) ==
    [c EXCEPT !.hand = IF c.nodes[n].next = 0 THEN c.head ELSE c.nodes[n].next]

\* The eviction of the node under the hand: its entry leaves the index and its bucket,
\* the node takes the new entry, and the hand advances.
Evict(c, n, key, value, ttl, t) ==
    AdvanceHand(
        [addEntryToExpiryBucket(
             [c EXCEPT !.expiryBuckets =
                           BucketDelete(@, getTimeBucket(c.nodes[n].expiresAt, c.tickInterval),
                                        c.nodes[n].key),
                       !.nodes[n].key = key,
                       !.nodes[n].value = value,
                       !.nodes[n].ref = FALSE,
                       !.nodes[n].expiresAt = t + ttl], n)
         EXCEPT !.index = MapPut(MapDelete(@, c.nodes[n].key), key, n)], n)

RECURSIVE EvictLoop(_, _, _, _, _)
\* The eviction loop of Add: a node whose ref is false or whose entry has expired is the
\* victim, any other node loses its ref and is passed.  A nil hand is dereferenced.
EvictLoop(c, key, value, ttl, t) ==
    IF c.hand = 0
    THEN AddResult(c, FALSE, "panic", NoEviction)
    ELSE IF ~c.nodes[c.hand].ref \/ t > c.nodes[c.hand].expiresAt
    THEN AddResult(Evict(c, c.hand, key, value, ttl, t), TRUE, "ok",
                   [key |-> c.nodes[c.hand].key, value |-> c.nodes[c.hand].value,
                    ref |-> c.nodes[c.hand].ref, expired |-> t > c.nodes[c.hand].expiresAt])
    ELSE EvictLoop(AdvanceHand([c EXCEPT !.nodes[c.hand].ref = FALSE], c.hand),
                   key, value, ttl, t)

RECURSIVE SkippedNodes(_, _, _)
\* The nodes the eviction loop of Add passes before it finds its victim (or a nil hand),
\* in the order the hand visits them: each has ref set and has not expired, loses its ref
\* and is passed.
SkippedNodes(c, t, seen) ==
    IF c.hand = 0 \/ ~c.nodes[c.hand].ref \/ t > c.nodes[c.hand].expiresAt
    THEN seen
    ELSE SkippedNodes(AdvanceHand([c EXCEPT !.nodes[c.hand].ref = FALSE], c.hand), t,
                      Append(seen, c.hand))

\* HyperClock.Add at time t.
HccAdd(c, key, value, ttl, t) ==
    IF key \in DOMAIN c.index
    THEN AddResult(AddUpdate(c, c.index[key], value, ttl, t), FALSE, "ok", NoEviction)
    ELSE IF c.size < c.capacity
    THEN AddResult(AddAppend(c, key, value, ttl, t), FALSE, "ok", NoEviction)
    ELSE EvictLoop(c, key, value, ttl, t)

\* The nodes of a bucket in the order the range over the map visits them: by the
\* position of their keys in order.
BucketNodes(bucket, order) ==
    [i \in 1..Len(SelectSeq(order, LAMBDA k : k \in DOMAIN bucket)) |->
        bucket[SelectSeq(order, LAMBDA k : k \in DOMAIN bucket)[i]]]

\* The reaper removes one node of a bucket: a hand on the node advances first, then the
\* entry leaves the index and the node the list.
ReapEntry(c, n) ==
    ListRemove([(IF c.hand = n THEN AdvanceHand(c, n) ELSE c)
                EXCEPT !.index = MapDelete(@, c.nodes[n].key)], n)

RECURSIVE ReapEntries(_, _)
ReapEntries(c, ns) ==
    IF Len(ns) = 0 THEN c ELSE ReapEntries(ReapEntry(c, Head(ns)), Tail(ns))

RECURSIVE ReaperLoop(_, _, _)
\* The reaper at time t: every bucket the reaper hand passes before t is cleared and
\* deleted.
ReaperLoop(c, t, order) ==
    IF ~(c.reaperHand < t)
    THEN c
    ELSE ReaperLoop(
             [(IF c.reaperHand \in DOMAIN c.expiryBuckets
               THEN [ReapEntries(c, BucketNodes(c.expiryBuckets[c.reaperHand], order))
                     EXCEPT !.expiryBuckets = MapDelete(@, c.reaperHand)]
               ELSE c)
              EXCEPT !.reaperHand = @ + c.tickInterval], t, order)

\* Purge removes one node of a bucket.
PurgeEntry(c, n) ==
    ListRemove([c EXCEPT !.index = MapDelete(@, c.nodes[n].key)], n)

RECURSIVE PurgeEntries(_, _)
PurgeEntries(c, ns) ==
    IF Len(ns) = 0 THEN c ELSE PurgeEntries(PurgeEntry(c, Head(ns)), Tail(ns))

RECURSIVE PurgeBuckets(_, _, _)
\* The range of Purge over the buckets, visited in the order of bucketOrder.
PurgeBuckets(c, bucketOrder, order) ==
    IF Len(bucketOrder) = 0
    THEN c
    ELSE PurgeBuckets(
             [PurgeEntries(c, BucketNodes(c.expiryBuckets[Head(bucketOrder)], order))
              EXCEPT !.expiryBuckets = MapDelete(@, Head(bucketOrder))],
             Tail(bucketOrder), order)

\* HyperClock.Purge.
HccPurge(c, bucketOrder, order) ==
    [PurgeBuckets(c, bucketOrder, order) EXCEPT !.hand = 0]

\* The nodes the cache refers to: by the hand, the list, the index and the buckets.
Roots(c) ==
    ({c.hand, c.head, c.tail}
     \cup {c.index[k] : k \in DOMAIN c.index}
     \cup UNION {{c.expiryBuckets[b][k] : k \in DOMAIN c.expiryBuckets[b]} :
                 b \in DOMAIN c.expiryBuckets}) \ {0}

RECURSIVE Reachable(_, _)
Reachable(c, S) ==
    IF (S \cup {c.nodes[n].next : n \in S} \cup {c.nodes[n].prev : n \in S}) \ {0} = S
    THEN S
    ELSE Reachable(c, (S \cup {c.nodes[n].next : n \in S} \cup {c.nodes[n].prev : n \in S}) \ {0})

RECURSIVE ListNodes(_, _, _)
\* The nodes of the list from node n on, following next; seen are the nodes before n.
ListNodes(c, n, seen) ==
    IF n = 0 \/ n \in {seen[i] : i \in DOMAIN seen}
    THEN seen
    ELSE ListNodes(c, c.nodes[n].next, Append(seen, n))

RECURSIVE Ascending(_)
\* The numbers of a set in ascending order.
Ascending(S) ==
    IF S = {}
    THEN <<>>
    ELSE <<CHOOSE n \in S : \A m \in S : n <= m>>
         \o Ascending(S \ {CHOOSE n \in S : \A m \in S : n <= m})

\* The live nodes: those of the list in list order, then the others.
LiveNodes(c, chain) ==
    chain \o Ascending(Reachable(c, Roots(c)) \ {chain[i] : i \in DOMAIN chain})

\* The name a node has once the live nodes are named 1, 2, ... in the order of live.
NodeName(live, n) == IF n = 0 THEN 0 ELSE CHOOSE i \in DOMAIN live : live[i] = n

\* The heap after the garbage collector freed the nodes nothing refers to.  Addresses
\* carry no meaning, so the live nodes are named anew in the order of live.
Renamed(c, live) ==
    [c EXCEPT !.hand = NodeName(live, @),
              !.head = NodeName(live, @),
              !.tail = NodeName(live, @),
              !.index = [k \in DOMAIN @ |-> NodeName(live, @[k])],
              !.expiryBuckets = [b \in DOMAIN @ |-> [k \in DOMAIN @[b] |-> NodeName(live, @[b][k])]],
              !.nodes = [i \in DOMAIN live |->
                            [c.nodes[live[i]] EXCEPT !.next = NodeName(live, @),
                                                     !.prev = NodeName(live, @)]]]

Collect(c) == Renamed(c, LiveNodes(c, ListNodes(c, c.head, <<>>)))

\* The keys filed in some of the given buckets.
BucketKeys(c, buckets) == UNION {DOMAIN c.expiryBuckets[b] : b \in buckets}

\* The buckets the reaper hand passes before the time t.
DueBuckets(c, t) ==
    {b \in DOMAIN c.expiryBuckets :
        /\ c.reaperHand <= b
        /\ b < t
        /\ (b - c.reaperHand) % c.tickInterval = 0}

\* The record of a call of the cache, of a reaper run or of a tick of the clock.
CacheCall(op, key, value, ttl, res) ==
    Call(op, key, [value |-> value, ttl |-> ttl], res, {})

\* The state after NewHyperClock at time 0; no store is in use.  opened tells that the
\* process has not panicked.
InitHcc ==
    /\ dir = EmptyDir
    /\ lsm = NoStore
    /\ opened = TRUE
    /\ last = CacheCall("new", 0, 0, 0, Result("ok", <<>>))
    /\ closeCalled = FALSE
    /\ written = <<>>
    /\ nWrites = 0
    /\ nFlushes = 0
    /\ faultBudget = 0
    /\ reopens = 0
    /\ lossy = FALSE
    /\ wroteSinceOpen = FALSE
    /\ now = 0
    /\ callers = IdleCallers
    /\ writeLog = <<>>
    /\ returned = <<>>
    /\ hcc \in {NewHyperClock(capacity, TickInterval, 0) : capacity \in 1..MaxCapacity}

\* A caller invokes HyperClock.Add(key, value, ttl); nWrites counts the calls of Add.
HccAddStep ==
    /\ opened
    /\ nWrites < MaxCacheAdds
    /\ nWrites' = nWrites + 1
    /\ \E key \in CacheKeys, value \in CacheValues, ttl \in Ttls :
         \E r \in {HccAdd(hcc, key, value, ttl, now)} :
             /\ value = 1 \/ key = 1
             /\ hcc' = IF r.outcome = "ok" THEN Collect(r.hcc) ELSE hcc
             /\ opened' = (r.outcome = "ok")
             /\ last' = CacheCall("add", key, value, ttl,
                                  [evictionOccurred |-> r.evictionOccurred,
                                   outcome |-> r.outcome,
                                   ref |-> r.evicted.ref, expired |-> r.evicted.expired])
    /\ UNCHANGED <<lsm, dir, closeCalled, written, nFlushes, faultBudget, reopens, lossy,
                   wroteSinceOpen, now, callers, writeLog, returned>>

\* A caller invokes HyperClock.Get(key).
HccGetStep ==
    /\ opened
    /\ \E key \in CacheKeys :
         \E r \in {HccGet(hcc, key, now)} :
             /\ hcc' = r.hcc
             /\ last' = CacheCall("get", key, 0, 0, [value |-> r.value, found |-> r.found])
    /\ UNCHANGED <<lsm, dir, opened, closeCalled, written, nWrites, nFlushes, faultBudget,
                   reopens, lossy, wroteSinceOpen, now, callers, writeLog, returned>>

\* A caller invokes HyperClock.Purge().
HccPurgeStep ==
    /\ opened
    /\ \E bucketOrder \in MapOrders(DOMAIN hcc.expiryBuckets),
          order \in MapOrders(BucketKeys(hcc, DOMAIN hcc.expiryBuckets)) :
         hcc' = Collect(HccPurge(hcc, bucketOrder, order))
    /\ last' = CacheCall("purge", 0, 0, 0, Result("ok", <<>>))
    /\ UNCHANGED <<lsm, dir, opened, closeCalled, written, nWrites, nFlushes, faultBudget,
                   reopens, lossy, wroteSinceOpen, now, callers, writeLog, returned>>

\* The ticker of the reaper goroutine fires while buckets are due.
ReaperStep ==
    /\ opened
    /\ hcc.reaperHand < now
    /\ \E order \in MapOrders(BucketKeys(hcc, DueBuckets(hcc, now))) :
         hcc' = Collect(ReaperLoop(hcc, now, order))
    /\ last' = CacheCall("reap", 0, 0, 0, Result("ok", <<>>))
    /\ UNCHANGED <<lsm, dir, opened, closeCalled, written, nWrites, nFlushes, faultBudget,
                   reopens, lossy, wroteSinceOpen, now, callers, writeLog, returned>>

\* Time passes.
CacheTickStep ==
    /\ now < MaxTime
    /\ now' = now + 1
    /\ last' = CacheCall("tick", 0, 0, 0, Result("ok", <<>>))
    /\ UNCHANGED <<lsm, dir, opened, closeCalled, written, nWrites, nFlushes, faultBudget,
                   reopens, lossy, wroteSinceOpen, callers, writeLog, returned, hcc>>

NextHcc ==
    \/ HccAddStep
    \/ HccGetStep
    \/ HccPurgeStep
    \/ ReaperStep
    \/ CacheTickStep

\* One HyperClock cache under adds, gets, purges, reaper ticks and the passing of time.
SpecHcc == InitHcc /\ [][NextHcc]_vars

(***************************************************************************)
(* The sharded cache (pkg/cache/shard.go) over HyperClock shards, as the    *)
(* block cache builds it (pkg/storage/block_cache.go).  The variable hcc    *)
(* holds the ShardedCache: its shards and its hash function.  The hash is   *)
(* a fixed function of the key, whichever function it is.                   *)
(***************************************************************************)
\* The largest shardCount a sharded cache is constructed with.
MaxShards == 2

\* The capacity of each shard.
ShardCapacity == 1

\* The most calls of Add on a sharded cache in a run.
MaxShardAdds == 3

\* The keys a sharded cache is called with.
ShardKeys == {1, 2}

\* The hash values of the keys.
HashValues == 0..2

\* NewShardedCache at time t over HyperClock shards: a shardCount below 1 becomes 1.
NewShardedCache(shardCount, hash, t) ==
    [shards |-> [i \in 1..(IF shardCount <= 0 THEN 1 ELSE shardCount) |->
                    NewHyperClock(ShardCapacity, TickInterval, t)],
     hash |-> hash]

\* getShard: the index of the shard of a key, counted from 1.
getShard(c, key) == (c.hash[key] % Len(c.shards)) + 1

\* The result r of a call on shard i, with the sharded cache c around the shard.
InShard(c, i, r) == [r EXCEPT !.hcc = [c EXCEPT !.shards[i] = r.hcc]]

\* ShardedCache.Get with the shard after the one of the key.
ShardedGet_NextShard(c, key, t) ==
    InShard(c, (getShard(c, key) % Len(c.shards)) + 1,
            HccGet(c.shards[(getShard(c, key) % Len(c.shards)) + 1], key, t))

\* ShardedCache.Get: the Get of the shard of the key.
ShardedGet(c, key, t) ==
    InShard(c, getShard(c, key), HccGet(c.shards[getShard(c, key)], key, t))

\* ShardedCache.Add: the Add of the shard of the key.
ShardedAdd(c, key, value, ttl, t) ==
    InShard(c, getShard(c, key), HccAdd(c.shards[getShard(c, key)], key, value, ttl, t))

RECURSIVE ShardedKeys(_, _, _)
\* ShardedCache.Keys: the keys of the shards from shard i on, appended shard by shard;
\* each shard gives the keys of its index in the order of their positions in order.
ShardedKeys(c, i, order) ==
    IF i > Len(c.shards)
    THEN <<>>
    ELSE SelectSeq(order, LAMBDA k : k \in DOMAIN c.shards[i].index)
         \o ShardedKeys(c, i + 1, order)

\* ShardedCache.Purge: the Purge of every shard; a shard ranges over its buckets and
\* their keys in the order of their positions in bucketOrder and order.
ShardedPurge(c, bucketOrder, order) ==
    [c EXCEPT !.shards =
        [i \in DOMAIN c.shards |->
            HccPurge(c.shards[i],
                     SelectSeq(bucketOrder, LAMBDA b : b \in DOMAIN c.shards[i].expiryBuckets),
                     order)]]

\* The state after NewShardedCache at time 0; no store is in use.
InitShard ==
    /\ dir = EmptyDir
    /\ lsm = NoStore
    /\ opened = TRUE
    /\ last = CacheCall("new", 0, 0, 0, Result("ok", <<>>))
    /\ closeCalled = FALSE
    /\ written = <<>>
    /\ nWrites = 0
    /\ nFlushes = 0
    /\ faultBudget = 0
    /\ reopens = 0
    /\ lossy = FALSE
    /\ wroteSinceOpen = FALSE
    /\ now = 0
    /\ callers = IdleCallers
    /\ writeLog = <<>>
    /\ returned = <<>>
    /\ hcc \in {NewShardedCache(shardCount, hash, 0) :
                   shardCount \in 0..MaxShards, hash \in [ShardKeys -> HashValues]}

\* The sharded cache after the garbage collector ran over the nodes of its shards.
CollectShards(c) == [c EXCEPT !.shards = [i \in DOMAIN c.shards |-> Collect(c.shards[i])]]

\* A caller invokes ShardedCache.Add(key, value, ttl); nWrites counts the calls of Add.
ShardAddStep ==
    /\ opened
    /\ nWrites < MaxShardAdds
    /\ nWrites' = nWrites + 1
    /\ \E key \in ShardKeys, value \in CacheValues, ttl \in Ttls :
         \E r \in {ShardedAdd(hcc, key, value, ttl, now)} :
             /\ value = 1 \/ key = 1
             /\ hcc' = IF r.outcome = "ok" THEN CollectShards(r.hcc) ELSE hcc
             /\ opened' = (r.outcome = "ok")
             /\ last' = CacheCall("add", key, value, ttl,
                                  [evictionOccurred |-> r.evictionOccurred,
                                   outcome |-> r.outcome,
                                   ref |-> r.evicted.ref, expired |-> r.evicted.expired])
    /\ UNCHANGED <<lsm, dir, closeCalled, written, nFlushes, faultBudget, reopens, lossy,
                   wroteSinceOpen, now, callers, writeLog, returned>>

\* A caller invokes ShardedCache.Get(key).
ShardGetStep ==
    /\ opened
    /\ \E key \in ShardKeys :
         \E r \in {ShardedGet(hcc, key, now)} :
             /\ hcc' = r.hcc
             /\ last' = CacheCall("get", key, 0, 0, [value |-> r.value, found |-> r.found])
    /\ UNCHANGED <<lsm, dir, opened, closeCalled, written, nWrites, nFlushes, faultBudget,
                   reopens, lossy, wroteSinceOpen, now, callers, writeLog, returned>>

\* A caller invokes ShardedCache.Keys().
ShardKeysStep ==
    /\ opened
    /\ \E order \in MapOrders(UNION {DOMAIN hcc.shards[i].index : i \in DOMAIN hcc.shards}) :
         last' = CacheCall("keys", 0, 0, 0, [keys |-> ShardedKeys(hcc, 1, order)])
    /\ UNCHANGED <<lsm, dir, opened, closeCalled, written, nWrites, nFlushes, faultBudget,
                   reopens, lossy, wroteSinceOpen, now, callers, writeLog, returned, hcc>>

\* A caller invokes ShardedCache.Purge().
ShardPurgeStep ==
    /\ opened
    /\ \E bucketOrder \in MapOrders(UNION {DOMAIN hcc.shards[i].expiryBuckets :
                                                i \in DOMAIN hcc.shards}),
          order \in MapOrders(UNION {BucketKeys(hcc.shards[i],
                                                DOMAIN hcc.shards[i].expiryBuckets) :
                                         i \in DOMAIN hcc.shards}) :
         hcc' = CollectShards(ShardedPurge(hcc, bucketOrder, order))
    /\ last' = CacheCall("purge", 0, 0, 0, Result("ok", <<>>))
    /\ UNCHANGED <<lsm, dir, opened, closeCalled, written, nWrites, nFlushes, faultBudget,
                   reopens, lossy, wroteSinceOpen, now, callers, writeLog, returned>>

\* The ticker of the reaper goroutine of shard i fires while buckets are due.
ShardReaperStep ==
    /\ opened
    /\ \E i \in DOMAIN hcc.shards :
         /\ hcc.shards[i].reaperHand < now
         /\ \E order \in MapOrders(BucketKeys(hcc.shards[i], DueBuckets(hcc.shards[i], now))) :
              hcc' = [hcc EXCEPT !.shards[i] = Collect(ReaperLoop(hcc.shards[i], now, order))]
    /\ last' = CacheCall("reap", 0, 0, 0, Result("ok", <<>>))
    /\ UNCHANGED <<lsm, dir, opened, closeCalled, written, nWrites, nFlushes, faultBudget,
                   reopens, lossy, wroteSinceOpen, now, callers, writeLog, returned>>

NextShard ==
    \/ ShardAddStep
    \/ ShardGetStep
    \/ ShardKeysStep
    \/ ShardPurgeStep
    \/ ShardReaperStep
    \/ CacheTickStep

\* A sharded cache under adds, gets, key listings, purges, reaper ticks of its shards
\* and the passing of time.
SpecShard == InitShard /\ [][NextShard]_vars

(***************************************************************************)
(* A memtable on its own (pkg/storage/memtable.go), as its tests drive it:  *)
(* nothing flushes it.  lsm.memTable holds the memtable.                    *)
(***************************************************************************)
\* The most calls of Set, Swap and Delete on the memtable in a run.
MaxMemCalls == 4

\* The state after NewMemTable.
InitMem ==
    /\ dir = EmptyDir
    /\ lsm = [NoStore EXCEPT !.memTable = NewMemTable]
    /\ opened = TRUE
    /\ last = Call("new", <<>>, <<>>, [shouldFlush |-> FALSE, found |-> FALSE, prevVal |-> <<>>], {})
    /\ closeCalled = FALSE
    /\ written = <<>>
    /\ nWrites = 0
    /\ nFlushes = 0
    /\ faultBudget = 0
    /\ reopens = 0
    /\ lossy = FALSE
    /\ wroteSinceOpen = FALSE
    /\ now = 0
    /\ callers = IdleCallers
    /\ writeLog = <<>>
    /\ returned = <<>>
    /\ hcc = NoCache

\* A caller invokes MemTable.Set(key, value).
MemSetStep ==
    /\ nWrites < MaxMemCalls
    /\ nWrites' = nWrites + 1
    /\ \E key \in Keys, value \in Values :
         \E r \in {MemTableSet(lsm.memTable, key, value)} :
             /\ lsm' = [lsm EXCEPT !.memTable = r.memTable]
             /\ last' = Call("set", key, value,
                             [shouldFlush |-> r.shouldFlush, found |-> FALSE, prevVal |-> <<>>], {})
    /\ UNCHANGED <<dir, opened, closeCalled, written, nFlushes, faultBudget, reopens, lossy,
                   wroteSinceOpen, now, callers, writeLog, returned, hcc>>

\* A caller invokes MemTable.Swap(key, value).
MemSwapStep ==
    /\ nWrites < MaxMemCalls
    /\ nWrites' = nWrites + 1
    /\ \E key \in Keys, value \in Values :
         \E r \in {MemTableSwap(lsm.memTable, key, value)} :
             /\ lsm' = [lsm EXCEPT !.memTable = r.memTable]
             /\ last' = Call("swap", key, value,
                             [shouldFlush |-> r.shouldFlush, found |-> r.found,
                              prevVal |-> r.prevVal], {})
    /\ UNCHANGED <<dir, opened, closeCalled, written, nFlushes, faultBudget, reopens, lossy,
                   wroteSinceOpen, now, callers, writeLog, returned, hcc>>

\* A caller invokes MemTable.Delete(key).
MemDeleteStep ==
    /\ nWrites < MaxMemCalls
    /\ nWrites' = nWrites + 1
    /\ \E key \in Keys :
         \E r \in {MemTableDelete(lsm.memTable, key)} :
             /\ lsm' = [lsm EXCEPT !.memTable = r.memTable]
             /\ last' = Call("delete", key, <<>>,
                             [shouldFlush |-> FALSE, found |-> r.found, prevVal |-> <<>>], {})
    /\ UNCHANGED <<dir, opened, closeCalled, written, nFlushes, faultBudget, reopens, lossy,
                   wroteSinceOpen, now, callers, writeLog, returned, hcc>>

NextMem ==
    \/ MemSetStep
    \/ MemSwapStep
    \/ MemDeleteStep

\* One memtable under Set, Swap and Delete.
SpecMem == InitMem /\ [][NextMem]_vars

(***************************************************************************)
(* The skip list with its levels (SkipList of pkg/storage).  A node is a    *)
(* heap object named by a positive number, 0 is nil; level i of the Go      *)
(* code is position i + 1 of forwards.  lsm.memTable.skipList holds the     *)
(* list; written holds the ordered map it stands for.                       *)
(***************************************************************************)
\* maxLevel of the lists constructed (defaultMaxLevel in the code is 16).
MaxLevel == 3

\* The keys and values the skip list is called with.
SkipKeys == {<<1, 1>>, <<1, 2>>, <<2>>}

SkipValues == {<<1>>, <<2>>}

\* randomLevel: any level from 1 to maxLevel.
randomLevel == 1..MaxLevel

\* NewSkipList with its head node, which has maxLevel nil forward pointers.
NewLevels ==
    [head |-> 1, level |-> 1, maxLevel |-> MaxLevel,
     nodes |-> [n \in {1} |-> [key |-> <<>>, value |-> <<>>,
                               forwards |-> [i \in 1..MaxLevel |-> 0]]]]

RECURSIVE WalkLevel(_, _, _, _)
\* The inner loop of a search: from node along level lvl while the next key is less than key.
WalkLevel(s, node, lvl, key) ==
    IF /\ s.nodes[node].forwards[lvl] # 0
       /\ BytesCompare(s.nodes[s.nodes[node].forwards[lvl]].key, key) < 0
    THEN WalkLevel(s, s.nodes[node].forwards[lvl], lvl, key)
    ELSE node

RECURSIVE Descend(_, _, _, _, _)
\* The outer loop of a search, from level lvl down: the node before the position of key
\* at the lowest level and, in update, the node before it at each level.
Descend(s, key, lvl, node, update) ==
    IF lvl < 1
    THEN [node |-> node, update |-> update]
    ELSE Descend(s, key, lvl - 1, WalkLevel(s, node, lvl, key),
                 [update EXCEPT ![lvl] = WalkLevel(s, node, lvl, key)])

\* The search of Get, Set and Delete from the head at the top level.
Search(s, key) == Descend(s, key, s.level, s.head, [i \in 1..s.maxLevel |-> 0])

\* SkipList.Get on the list with levels.
LevelsGet(s, key) ==
    LET node == s.nodes[Search(s, key).node].forwards[1]
    IN  IF node # 0 /\ BytesCompare(s.nodes[node].key, key) = 0
        THEN [value |-> s.nodes[node].value, found |-> TRUE]
        ELSE [value |-> <<>>, found |-> FALSE]

\* The splice of Set: a new node of lvl levels after the nodes of update.
Splice(s, key, value, lvl, update) ==
    LET n == CHOOSE m \in 1..(Cardinality(DOMAIN s.nodes) + 1) :
                 /\ m \notin DOMAIN s.nodes
                 /\ \A j \in 1..(Cardinality(DOMAIN s.nodes) + 1) :
                        j \notin DOMAIN s.nodes => m <= j
    IN  [s EXCEPT
           !.level = IF lvl > s.level THEN lvl ELSE s.level,
           !.nodes = [m \in DOMAIN s.nodes \cup {n} |->
                         IF m = n
                         THEN [key |-> key, value |-> value,
                               forwards |-> [i \in 1..lvl |-> s.nodes[update[i]].forwards[i]]]
                         ELSE [s.nodes[m] EXCEPT !.forwards =
                                  [i \in DOMAIN @ |->
                                      IF i <= lvl /\ update[i] = m THEN n ELSE @[i]]]]]

\* SkipList.Set on the list with levels; lvl is the level randomLevel returns.
LevelsSet(s, key, value, lvl) ==
    LET d == Search(s, key)
        next == s.nodes[d.node].forwards[1]
    IN  IF next # 0 /\ BytesCompare(s.nodes[next].key, key) = 0
        THEN [skipList |-> [s EXCEPT !.nodes[next].value = value],
              prevVal |-> s.nodes[next].value, found |-> TRUE]
        ELSE [skipList |-> Splice(s, key, value, lvl,
                                  [i \in 1..s.maxLevel |->
                                      IF i > s.level /\ i <= lvl THEN s.head ELSE d.update[i]]),
              prevVal |-> <<>>, found |-> FALSE]

\* The rewiring of Delete on the lowest level only.
Unlink_LowestLevel(s, target, update) ==
    [s EXCEPT !.nodes[update[1]].forwards[1] = s.nodes[target].forwards[1]]

\* The rewiring of Delete: the nodes of update that point at target point past it, and
\* the empty top levels are given up.
Unlink(s, target, update) ==
    LET nodes == [m \in DOMAIN s.nodes |->
                     [s.nodes[m] EXCEPT !.forwards =
                         [i \in DOMAIN @ |->
                             IF i <= s.level /\ update[i] = m /\ @[i] = target
                             THEN s.nodes[target].forwards[i] ELSE @[i]]]]
    IN  [s EXCEPT !.nodes = nodes,
                  !.level = CHOOSE l \in 1..s.level :
                                /\ l = 1 \/ nodes[s.head].forwards[l] # 0
                                /\ \A j \in (l + 1)..s.level : nodes[s.head].forwards[j] = 0]

RECURSIVE LinkedNodes(_, _)
\* The nodes that can be reached from the nodes S along forward pointers.
LinkedNodes(s, S) ==
    IF (S \cup UNION {{s.nodes[n].forwards[i] : i \in DOMAIN s.nodes[n].forwards} :
                       n \in S}) \ {0} = S
    THEN S
    ELSE LinkedNodes(s, (S \cup UNION {{s.nodes[n].forwards[i] :
                                            i \in DOMAIN s.nodes[n].forwards} : n \in S}) \ {0})

\* The list after the garbage collector freed the nodes nothing points at.
Linked(s) == [s EXCEPT !.nodes = [n \in LinkedNodes(s, {s.head}) |-> s.nodes[n]]]

\* SkipList.Delete on the list with levels.
LevelsDelete(s, key) ==
    LET d == Search(s, key)
        target == s.nodes[d.node].forwards[1]
    IN  IF target = 0 \/ BytesCompare(s.nodes[target].key, key) # 0
        THEN [skipList |-> s, prevVal |-> <<>>, found |-> FALSE]
        ELSE [skipList |-> Linked(Unlink(s, target, d.update)),
              prevVal |-> s.nodes[target].value, found |-> TRUE]

RECURSIVE IterateFrom(_, _, _)
\* SkipList.Iterate from node n on: the pairs of the nodes along the lowest level; the
\* walk is cut off once it has yielded more pairs than there are nodes.
IterateFrom(s, n, pairs) ==
    IF n = 0 \/ Len(pairs) > Cardinality(DOMAIN s.nodes)
    THEN pairs
    ELSE IterateFrom(s, s.nodes[n].forwards[1],
                     Append(pairs, [Key |-> s.nodes[n].key, Value |-> s.nodes[n].value]))

\* SkipList.Iterate, collected.
LevelsIterate(s) == IterateFrom(s, s.nodes[s.head].forwards[1], <<>>)

\* The state after NewSkipList.
InitSkip ==
    /\ dir = EmptyDir
    /\ lsm = [NoStore EXCEPT !.memTable.skipList = NewLevels]
    /\ opened = TRUE
    /\ last = Call("new", <<>>, <<>>, [prevVal |-> <<>>, found |-> FALSE, pairs |-> <<>>], {})
    /\ closeCalled = FALSE
    /\ written = <<>>
    /\ nWrites = 0
    /\ nFlushes = 0
    /\ faultBudget = 0
    /\ reopens = 0
    /\ lossy = FALSE
    /\ wroteSinceOpen = FALSE
    /\ now = 0
    /\ callers = IdleCallers
    /\ writeLog = <<>>
    /\ returned = <<>>
    /\ hcc = NoCache

\* A caller invokes SkipList.Set(key, value); randomLevel returns lvl.
SkipSetStep ==
    /\ \E key \in SkipKeys, value \in SkipValues, lvl \in randomLevel :
         \E r \in {LevelsSet(lsm.memTable.skipList, key, value, lvl)} :
             /\ lsm' = [lsm EXCEPT !.memTable.skipList = r.skipList]
             /\ last' = Call("set", key, value,
                             [prevVal |-> r.prevVal, found |-> r.found, pairs |-> <<>>], {})
             /\ written' = MapPut(written, key, value)
    /\ UNCHANGED <<dir, opened, closeCalled, nWrites, nFlushes, faultBudget, reopens, lossy,
                   wroteSinceOpen, now, callers, writeLog, returned, hcc>>

\* A caller invokes SkipList.Delete(key).
SkipDeleteStep ==
    /\ \E key \in SkipKeys :
         \E r \in {LevelsDelete(lsm.memTable.skipList, key)} :
             /\ lsm' = [lsm EXCEPT !.memTable.skipList = r.skipList]
             /\ last' = Call("delete", key, <<>>,
                             [prevVal |-> r.prevVal, found |-> r.found, pairs |-> <<>>], {})
             /\ written' = [k \in DOMAIN written \ {key} |-> written[k]]
    /\ UNCHANGED <<dir, opened, closeCalled, nWrites, nFlushes, faultBudget, reopens, lossy,
                   wroteSinceOpen, now, callers, writeLog, returned, hcc>>

\* A caller invokes SkipList.Get(key).
SkipGetStep ==
    /\ \E key \in SkipKeys :
         \E r \in {LevelsGet(lsm.memTable.skipList, key)} :
             last' = Call("get", key, <<>>,
                          [prevVal |-> r.value, found |-> r.found, pairs |-> <<>>], {})
    /\ UNCHANGED <<lsm, dir, opened, closeCalled, written, nWrites, nFlushes, faultBudget,
                   reopens, lossy, wroteSinceOpen, now, callers, writeLog, returned, hcc>>

\* A caller collects SkipList.Iterate().
SkipIterateStep ==
    /\ last' = Call("iterate", <<>>, <<>>,
                    [prevVal |-> <<>>, found |-> FALSE,
                     pairs |-> LevelsIterate(lsm.memTable.skipList)], {})
    /\ UNCHANGED <<lsm, dir, opened, closeCalled, written, nWrites, nFlushes, faultBudget,
                   reopens, lossy, wroteSinceOpen, now, callers, writeLog, returned, hcc>>

NextSkip ==
    \/ SkipSetStep
    \/ SkipDeleteStep
    \/ SkipGetStep
    \/ SkipIterateStep

\* One skip list under Set, Delete, Get and Iterate, for every choice of levels.
SpecSkip == InitSkip /\ [][NextSkip]_vars

(***************************************************************************)
(* The prefix compressor on its own (pkg/storage/compression.go): a batch   *)
(* is drawn, compressDataBlocks is applied to it.  last holds the batch     *)
(* and the result.                                                          *)
(***************************************************************************)
\* The longest key of a batch and the most pairs of a batch.
MaxKeyLen == 3

MaxBatch == 4

\* The keys of the batches: the byte strings over "a" and "b" up to MaxKeyLen bytes.
BatchKeys == UNION {[1..n -> {1, 2}] : n \in 0..MaxKeyLen}

\* The batches: up to MaxBatch pairs ascending by key (equal keys may follow each
\* other); the value of a pair tells its position.
SortedBatches ==
    {[i \in 1..Len(ks) |-> [Key |-> ks[i], Value |-> <<i>>]] :
        ks \in {k \in UNION {[1..n -> BatchKeys] : n \in 0..MaxBatch} :
                   \A i \in 1..(Len(k) - 1) : BytesCompare(k[i], k[i + 1]) <= 0}}

\* A batch was collected.
InitCompress ==
    /\ dir = EmptyDir
    /\ lsm = NoStore
    /\ opened = FALSE
    /\ \E pairs \in SortedBatches :
         last = Call("batch", <<>>, pairs, [prefixes |-> <<>>, blocks |-> <<>>], {})
    /\ closeCalled = FALSE
    /\ written = <<>>
    /\ nWrites = 0
    /\ nFlushes = 0
    /\ faultBudget = 0
    /\ reopens = 0
    /\ lossy = FALSE
    /\ wroteSinceOpen = FALSE
    /\ now = 0
    /\ callers = IdleCallers
    /\ writeLog = <<>>
    /\ returned = <<>>
    /\ hcc = NoCache

\* compressDataBlocks is called with the batch.
CompressStep ==
    /\ last.op = "batch"
    /\ last' = Call("compress", <<>>, last.value, compressDataBlocks(last.value), {})
    /\ UNCHANGED <<lsm, dir, opened, closeCalled, written, nWrites, nFlushes, faultBudget,
                   reopens, lossy, wroteSinceOpen, now, callers, writeLog, returned, hcc>>

NextCompress == CompressStep

\* compressDataBlocks on every batch.
SpecCompress == InitCompress /\ [][NextCompress]_vars

(***************************************************************************)
(* One segment read through the block cache (pkg/storage/sstable.go with   *)
(* pkg/storage/block_cache.go).  A batch of pairs is written as segment 1  *)
(* of the table, the file is opened and keys are looked up.  The variable  *)
(* hcc holds the block cache, a single HyperClock shard; written holds the *)
(* batch as a map; dir the table directory; lsm.diskTables the open        *)
(* segment.                                                                *)
(***************************************************************************)
\* The keys of the batches and of the lookups.
SegKeys == Keys \cup {<<1>>, <<2, 1>>}

\* The id of the table the segment belongs to.
SegTable == 1

\* block_cache_ttl, in units of the clock.
cacheTtl == 1

\* The batches writeSSTable is called with: pairs ascending by key, no key twice; the
\* value of a pair tells its position.
SegBatches ==
    {[i \in 1..Len(ks) |-> [Key |-> ks[i], Value |-> <<i>>]] :
        ks \in {s \in UNION {[1..n -> SegKeys] : n \in 1..Cardinality(SegKeys)} :
                   \A i \in 1..(Len(s) - 1) : BytesCompare(s[i], s[i + 1]) < 0}}

\* The batch as a map from key to value.
BatchMap(pairs) ==
    [k \in PairKeys(pairs) |-> pairs[CHOOSE i \in 1..Len(pairs) : pairs[i].Key = k].Value]

\* The outcomes of building the bloom filter of a batch over SegKeys: none below
\* bloom_filter_min_keys; otherwise a filter that accepts every key added and, depending
\* on the hash values, any other keys.
SegBloomChoices(pairs) ==
    IF Len(pairs) >= bfIndexMinKeys
    THEN {[present |-> TRUE, accepts |-> PairKeys(pairs) \cup fp] :
              fp \in SUBSET (SegKeys \ PairKeys(pairs))}
    ELSE {[present |-> FALSE, accepts |-> {}]}

\* dbCacheKey with the offset left out.
dbCacheKey_NoOffset(table, ssTableId, offset) == <<table, ssTableId>>

\* dbCacheKey: the key of a data block in the block cache.
dbCacheKey(table, ssTableId, offset) == <<table, ssTableId, offset>>

\* The data block getFromDataBlocks works on: the block the cache holds under the key
\* of the offset or, on a miss, the block read from the file, which is then added to
\* the cache with block_cache_ttl.
CachedBlock(s, cache, blockOffset, t) ==
    LET cached == HccGet(cache, dbCacheKey(SegTable, s.header.Id, blockOffset), t)
        read == ReadBlock(s.header, blockOffset)
    IN  IF cached.found
        THEN [dataBlock |-> cached.value, cache |-> cached.hcc, hit |-> TRUE,
              outcome |-> "ok"]
        ELSE LET set == HccAdd(cached.hcc, dbCacheKey(SegTable, s.header.Id, blockOffset),
                               read, cacheTtl, t)
             IN  [dataBlock |-> read,
                  cache |-> IF set.outcome = "ok" THEN set.hcc ELSE cached.hcc,
                  hit |-> FALSE, outcome |-> set.outcome]

\* The result of a lookup in the segment with the block cache after it; hit tells
\* whether the block came from the cache.
SegResult(kind, val, cache, hit, outcome) ==
    [kind |-> kind, val |-> val, cache |-> cache, hit |-> hit, outcome |-> outcome]

\* SSTable.getFromDataBlocks with the shared block cache: finds the block by the skip
\* index, takes it from the cache or the file, and finds the key inside it.
getFromCachedBlocks(s, cache, key, t) ==
    LET search == BinarySearchFunc(s.header.FirstKeys, key)
        blockIndex == IF search.found THEN search.index ELSE search.index - 1
        blockOffset == s.header.BlockOffsets[blockIndex + 1]
        keyWithoutPrefix == TrimPrefix(key, s.header.Prefixes[blockIndex + 1])
    IN  IF ~search.found /\ search.index = 0
        THEN SegResult("not_found", <<>>, cache, FALSE, "ok")
        ELSE \* A miss on a closed block reader fails in ReadBlock.
             IF s.readerClosed
                /\ ~HccGet(cache, dbCacheKey(SegTable, s.header.Id, blockOffset), t).found
        THEN SegResult("io", <<>>, cache, FALSE, "ok")
        ELSE LET b == CachedBlock(s, cache, blockOffset, t)
                 inBlock == BinarySearchFunc(b.dataBlock.Keys, keyWithoutPrefix)
             IN  IF inBlock.found
                 THEN SegResult("ok", b.dataBlock.Values[inBlock.index + 1], b.cache, b.hit,
                                b.outcome)
                 ELSE SegResult("not_found", <<>>, b.cache, b.hit, b.outcome)

\* SSTable.Get with the shared block cache: closed check, key range check, bloom filter,
\* then the data blocks.
SSTableGetCached(s, cache, key, t) ==
    IF s.closed
    THEN SegResult("closed", <<>>, cache, FALSE, "ok")
    ELSE IF BytesCompare(key, s.header.FirstKeys[1]) < 0
            \/ BytesCompare(key, s.header.LastKey) > 0
         THEN SegResult("not_found", <<>>, cache, FALSE, "ok")
         ELSE IF s.header.BfIndex.present /\ key \notin s.header.BfIndex.accepts
              THEN SegResult("not_found", <<>>, cache, FALSE, "ok")
              ELSE getFromCachedBlocks(s, cache, key, t)

\* The record of a step on the segment: the key looked up, the batch written, and what
\* the lookup returned.
SegCall(op, key, pairs, kind, val, hit) ==
    Call(op, key, pairs, [kind |-> kind, val |-> val, hit |-> hit], {})

\* The state before the segment is written: a batch is chosen, the directory and the
\* block cache are empty.
InitSegment ==
    /\ dir = EmptyDir
    /\ lsm = NoStore
    /\ opened = TRUE
    /\ \E pairs \in SegBatches :
         /\ last = SegCall("batch", <<>>, pairs, "ok", <<>>, FALSE)
         /\ written = BatchMap(pairs)
    /\ closeCalled = FALSE
    /\ nWrites = 0
    /\ nFlushes = 0
    /\ faultBudget = 0
    /\ reopens = 0
    /\ lossy = FALSE
    /\ wroteSinceOpen = FALSE
    /\ now = 0
    /\ callers = IdleCallers
    /\ writeLog = <<>>
    /\ returned = <<>>
    /\ hcc \in {NewHyperClock(capacity, TickInterval, 0) : capacity \in 1..MaxCapacity}

\* writeSSTable writes the batch as segment 1, with no previous segment.
SegWriteStep ==
    /\ last.op = "batch"
    /\ \E bf \in SegBloomChoices(last.value) :
         dir' = DirWrite(dir, 1, writeSSTable(0, 1, last.value, bf))
    /\ last' = SegCall("write", <<>>, <<>>, "ok", <<>>, FALSE)
    /\ UNCHANGED <<lsm, opened, closeCalled, written, nWrites, nFlushes, faultBudget, reopens,
                   lossy, wroteSinceOpen, now, callers, writeLog, returned, hcc>>

\* NewSSTable opens the segment file.
SegOpenStep ==
    /\ 1 \in DOMAIN dir
    /\ 1 \notin DOMAIN lsm.diskTables
    /\ lsm' = [lsm EXCEPT !.diskTables = MapPut(@, 1, NewSSTable(dir[1])),
                          !.latestDiskTable = 1]
    /\ last' = SegCall("open", <<>>, <<>>, "ok", <<>>, FALSE)
    /\ UNCHANGED <<dir, opened, closeCalled, written, nWrites, nFlushes, faultBudget, reopens,
                   lossy, wroteSinceOpen, now, callers, writeLog, returned, hcc>>

\* A caller invokes SSTable.Get(key) on the open segment.
SegGetStep ==
    /\ opened
    /\ 1 \in DOMAIN lsm.diskTables
    /\ \E key \in SegKeys :
         \E r \in {SSTableGetCached(lsm.diskTables[1], hcc, key, now)} :
             /\ hcc' = Collect(r.cache)
             /\ opened' = (r.outcome = "ok")
             /\ last' = SegCall("get", key, <<>>, r.kind, r.val, r.hit)
    /\ UNCHANGED <<lsm, dir, closeCalled, written, nWrites, nFlushes, faultBudget, reopens,
                   lossy, wroteSinceOpen, now, callers, writeLog, returned>>

\* The ticker of the reaper goroutine of the block cache fires while buckets are due.
SegReaperStep ==
    /\ opened
    /\ hcc.reaperHand < now
    /\ \E order \in MapOrders(BucketKeys(hcc, DueBuckets(hcc, now))) :
         hcc' = Collect(ReaperLoop(hcc, now, order))
    /\ last' = SegCall("reap", <<>>, <<>>, "ok", <<>>, FALSE)
    /\ UNCHANGED <<lsm, dir, opened, closeCalled, written, nWrites, nFlushes, faultBudget,
                   reopens, lossy, wroteSinceOpen, now, callers, writeLog, returned>>

\* Time passes.
SegTickStep ==
    /\ now < MaxTime
    /\ now' = now + 1
    /\ last' = SegCall("tick", <<>>, <<>>, "ok", <<>>, FALSE)
    /\ UNCHANGED <<lsm, dir, opened, closeCalled, written, nWrites, nFlushes, faultBudget,
                   reopens, lossy, wroteSinceOpen, callers, writeLog, returned, hcc>>

NextSegment ==
    \/ SegWriteStep
    \/ SegOpenStep
    \/ SegGetStep
    \/ SegReaperStep
    \/ SegTickStep

\* One segment written from a batch, opened and read through the block cache.
SpecSegment == InitSegment /\ [][NextSegment]_vars

(***************************************************************************)
(* The value codec alone (src/unnamed/part_005): a record is packed and    *)
(* the buffer unpacked again, or a buffer is unpacked and the record       *)
(* packed again.  The variable written holds the input the calls started   *)
(* from, last the call made last and what it returned.  An expiry is its   *)
(* UnixNano.                                                               *)
(***************************************************************************)
\* The value bytes of the records and buffers.
CodecValues == Values \cup {<<>>}

\* The expiry times of the expirable records.
CodecExpiries == {0, 1, 255, 256, 65535}

\* The last two bytes of the expiry of the buffers; the six bytes before them are zero.
ExpiryBytes == {0, 1, 255}

\* The records given to pack: the tombstone, the plain values and the expirable values.
CodecRecords ==
    {tombstoneUnpacked}
        \cup {Unpacked(0, v, 0) : v \in CodecValues}
        \cup {Unpacked(Expirable, v, e) : v \in CodecValues, e \in CodecExpiries}

\* The buffers given to unpack: the tombstone, the plain and the expirable layouts, the
\* empty buffer, an expirable buffer too short for an expiry, and buffers that have bytes
\* after a flags byte with the tombstone bit.
CodecBuffers ==
    {<<TombStone>>}
        \cup {<<0>> \o v : v \in CodecValues}
        \cup {<<Expirable>> \o v \o <<0, 0, 0, 0, 0, 0, x, y>> :
                  v \in CodecValues, x \in ExpiryBytes, y \in ExpiryBytes}
        \cup {<<>>, <<Expirable, 1>>, <<TombStone, 1>>,
              <<3, 1, 0, 0, 0, 0, 0, 0, 0, 1>>}

\* The record of a step of the codec: the buffer and the record the call took or
\* returned, the error of unpack and the answer of isExpired.
CodecCall(op, packed, uv, err, expired) ==
    Call(op, <<>>, packed, [uv |-> uv, err |-> err, expired |-> expired], {})

\* The input of the calls: a record or a buffer.
CodecInput(kind, packed, uv) == [kind |-> kind, packed |-> packed, uv |-> uv]

\* A record or a buffer is chosen; no store and no cache is in use.
InitCodec ==
    /\ dir = EmptyDir
    /\ lsm = NoStore
    /\ opened = TRUE
    /\ \/ \E uv \in CodecRecords :
            /\ written = CodecInput("record", <<>>, uv)
            /\ last = CodecCall("record", <<>>, uv, FALSE, FALSE)
       \/ \E packed \in CodecBuffers :
            /\ written = CodecInput("buffer", packed, Unpacked(0, <<>>, 0))
            /\ last = CodecCall("buffer", packed, Unpacked(0, <<>>, 0), FALSE, FALSE)
    /\ closeCalled = FALSE
    /\ nWrites = 0
    /\ nFlushes = 0
    /\ faultBudget = 0
    /\ reopens = 0
    /\ lossy = FALSE
    /\ wroteSinceOpen = FALSE
    /\ now = 0
    /\ callers = IdleCallers
    /\ writeLog = <<>>
    /\ returned = <<>>
    /\ hcc = NewHyperClock(1, TickInterval, 0)

\* pack is called on the record chosen or on the record unpack returned.
PackStep ==
    /\ last.op \in {"record", "unpack"}
    /\ ~last.res.err
    /\ last' = CodecCall("pack", pack(last.res.uv), last.res.uv, FALSE, FALSE)
    /\ UNCHANGED <<lsm, dir, opened, closeCalled, written, nWrites, nFlushes, faultBudget,
                   reopens, lossy, wroteSinceOpen, now, callers, writeLog, returned, hcc>>

\* unpack is called on the buffer chosen or on the buffer pack returned.
UnpackStep ==
    /\ last.op \in {"buffer", "pack"}
    /\ \E r \in {unpack(last.value)} :
         last' = CodecCall("unpack", last.value, r.uv, r.err, FALSE)
    /\ UNCHANGED <<lsm, dir, opened, closeCalled, written, nWrites, nFlushes, faultBudget,
                   reopens, lossy, wroteSinceOpen, now, callers, writeLog, returned, hcc>>

\* isExpired is called on the record chosen or on the record unpack returned.
IsExpiredStep ==
    /\ last.op \in {"record", "unpack"}
    /\ ~last.res.err
    /\ last' = CodecCall("isExpired", last.value, last.res.uv, FALSE,
                         isExpired(last.res.uv, now))
    /\ UNCHANGED <<lsm, dir, opened, closeCalled, written, nWrites, nFlushes, faultBudget,
                   reopens, lossy, wroteSinceOpen, now, callers, writeLog, returned, hcc>>

\* Time passes before a call.
CodecTickStep ==
    /\ now < MaxTime
    /\ last.op \in {"record", "buffer", "pack", "unpack"}
    /\ now' = now + 1
    /\ UNCHANGED <<lsm, dir, opened, last, closeCalled, written, nWrites, nFlushes,
                   faultBudget, reopens, lossy, wroteSinceOpen, callers, writeLog, returned,
                   hcc>>

NextCodec ==
    \/ PackStep
    \/ UnpackStep
    \/ IsExpiredStep
    \/ CodecTickStep

\* The codec applied to a record or a buffer, forth and back.
SpecCodec == InitCodec /\ [][NextCodec]_vars

(***************************************************************************)
(* writeSSTable step by step (pkg/storage/sstable.go:179-262): the         *)
(* temporary file is created, the header and the data blocks are written,  *)
(* the block writer is closed, the directories are made and the temporary  *)
(* file is renamed to the destination; each of these may fail.  The        *)
(* variable callers holds the call in progress: its position, the file it  *)
(* built and its temporary file; dir the table directory of the            *)
(* destination; written the directory as it was before the call; last the  *)
(* pairs of the call and, at the end, what it returned.                    *)
(***************************************************************************)
\* The id of the segment writeSSTable writes; the path is the file of that id.
WriteNextId == 1

\* The batches writeSSTable is called with: none, or pairs ascending by key.
WriteBatches ==
    {<<>>} \cup
    {[i \in 1..Len(ks) |-> [Key |-> ks[i], Value |-> <<i>>]] :
        ks \in {s \in UNION {[1..n -> Keys] : n \in 1..Cardinality(Keys)} :
                   \A i \in 1..(Len(s) - 1) : BytesCompare(s[i], s[i + 1]) < 0}}

\* The directories of the destination before the call: empty, or holding a file at the
\* destination path already.
WriteDirs ==
    {EmptyDir,
     DirWrite(EmptyDir, WriteNextId,
              writeSSTable(0, WriteNextId, <<[Key |-> <<2>>, Value |-> <<9>>]>>,
                           [present |-> FALSE, accepts |-> {}]))}

\* A temporary file: whether it exists in the temp folder, and the header and the
\* number of data blocks that were written to it.
TmpFile(exists, header, blocks) == [exists |-> exists, header |-> header, blocks |-> blocks]

\* No temporary file.
NoTmpFile == TmpFile(FALSE, FALSE, 0)

\* The segment file that holds what was written to tmp of the file built.
TmpContent(file, tmp) == [file EXCEPT !.Blocks = SubSeq(file.Blocks, 1, tmp.blocks)]

\* The call of writeSSTable: its position, the file (header and data blocks) it built
\* from the pairs, and its temporary file.
Writer(pc, file, tmp) == [pc |-> pc, file |-> file, tmp |-> tmp]

\* The record of a step of the call: the pairs and, after the return, the error.
WriteCall(op, pairs, kind) == Call(op, <<>>, pairs, [kind |-> kind], {})

\* The deferred os.Remove(tmpFile.Name()) left out.
DeferredRemove_Skipped(tmp) == tmp

\* The deferred os.Remove(tmpFile.Name()): the temporary file, if it is still in the
\* temp folder, is removed.
DeferredRemove(tmp) == [tmp EXCEPT !.exists = FALSE]

\* The call returns from the position it is at, with the error kind; the deferred
\* function runs.
WriterReturns(c) == Writer("returned", c.file, DeferredRemove(c.tmp))

\* The state at the call of writeSSTable(0, 1, path, pairs).
InitWrite ==
    /\ \E d \in WriteDirs :
         /\ dir = d
         /\ written = d
    /\ \E pairs \in WriteBatches :
         /\ last = WriteCall("call", pairs, "none")
         /\ callers \in
              IF Len(pairs) = 0
              THEN {Writer("empty", <<>>, NoTmpFile)}
              ELSE {Writer("create", writeSSTable(0, WriteNextId, pairs, bf), NoTmpFile) :
                        bf \in BloomChoices(pairs)}
    /\ lsm = NoStore
    /\ opened = TRUE
    /\ closeCalled = FALSE
    /\ nWrites = 0
    /\ nFlushes = 0
    /\ faultBudget = 0
    /\ reopens = 0
    /\ lossy = FALSE
    /\ wroteSinceOpen = FALSE
    /\ now = 0
    /\ writeLog = <<>>
    /\ returned = <<>>
    /\ hcc = NewHyperClock(1, TickInterval, 0)

\* An empty list of pairs is refused before anything is created.
WriteEmptyStep ==
    /\ callers.pc = "empty"
    /\ callers' = [callers EXCEPT !.pc = "returned"]
    /\ last' = WriteCall("return", last.value, "empty")
    /\ UNCHANGED <<lsm, dir, opened, closeCalled, written, nWrites, nFlushes, faultBudget,
                   reopens, lossy, wroteSinceOpen, now, writeLog, returned, hcc>>

\* os.CreateTemp: on an error the call returns with no temporary file created.
WriteCreateTempStep ==
    /\ callers.pc = "create"
    /\ \E ok \in BOOLEAN :
         IF ok
         THEN /\ callers' = Writer("header", callers.file, TmpFile(TRUE, FALSE, 0))
              /\ last' = WriteCall("create", last.value, "none")
         ELSE /\ callers' = [callers EXCEPT !.pc = "returned"]
              /\ last' = WriteCall("return", last.value, "io")
    /\ UNCHANGED <<lsm, dir, opened, closeCalled, written, nWrites, nFlushes, faultBudget,
                   reopens, lossy, wroteSinceOpen, now, writeLog, returned, hcc>>

\* blockWriter.WriteBlock(header).
WriteHeaderStep ==
    /\ callers.pc = "header"
    /\ \E ok \in BOOLEAN :
         IF ok
         THEN /\ callers' = Writer(IF Len(callers.file.Blocks) > 0 THEN "blocks" ELSE "close",
                                   callers.file, [callers.tmp EXCEPT !.header = TRUE])
              /\ last' = WriteCall("header", last.value, "none")
         ELSE /\ callers' = WriterReturns(callers)
              /\ last' = WriteCall("return", last.value, "io")
    /\ UNCHANGED <<lsm, dir, opened, closeCalled, written, nWrites, nFlushes, faultBudget,
                   reopens, lossy, wroteSinceOpen, now, writeLog, returned, hcc>>

\* blockWriter.WriteBlock(dataBlock) for the next data block.
WriteDataBlockStep ==
    /\ callers.pc = "blocks"
    /\ \E ok \in BOOLEAN :
         IF ok
         THEN /\ callers' = Writer(IF callers.tmp.blocks + 1 < Len(callers.file.Blocks)
                                   THEN "blocks" ELSE "close",
                                   callers.file, [callers.tmp EXCEPT !.blocks = @ + 1])
              /\ last' = WriteCall("block", last.value, "none")
         ELSE /\ callers' = WriterReturns(callers)
              /\ last' = WriteCall("return", last.value, "io")
    /\ UNCHANGED <<lsm, dir, opened, closeCalled, written, nWrites, nFlushes, faultBudget,
                   reopens, lossy, wroteSinceOpen, now, writeLog, returned, hcc>>

\* blockWriter.Close(): flushes the buffer and closes the temporary file.
WriteCloseStep ==
    /\ callers.pc = "close"
    /\ \E ok \in BOOLEAN :
         IF ok
         THEN /\ callers' = [callers EXCEPT !.pc = "mkdir"]
              /\ last' = WriteCall("close", last.value, "none")
         ELSE /\ callers' = WriterReturns(callers)
              /\ last' = WriteCall("return", last.value, "io")
    /\ UNCHANGED <<lsm, dir, opened, closeCalled, written, nWrites, nFlushes, faultBudget,
                   reopens, lossy, wroteSinceOpen, now, writeLog, returned, hcc>>

\* os.MkdirAll of the directory of the destination.
WriteMkdirAllStep ==
    /\ callers.pc = "mkdir"
    /\ \E ok \in BOOLEAN :
         IF ok
         THEN /\ callers' = [callers EXCEPT !.pc = "rename"]
              /\ last' = WriteCall("mkdir", last.value, "none")
         ELSE /\ callers' = WriterReturns(callers)
              /\ last' = WriteCall("return", last.value, "io")
    /\ UNCHANGED <<lsm, dir, opened, closeCalled, written, nWrites, nFlushes, faultBudget,
                   reopens, lossy, wroteSinceOpen, now, writeLog, returned, hcc>>

\* os.Rename of the temporary file to the destination, then the return: on success the
\* destination holds what the temporary file held and the temp folder no longer has the
\* file, so that the deferred removal finds nothing.
WriteRenameStep ==
    /\ callers.pc = "rename"
    /\ \E ok \in BOOLEAN :
         IF ok
         THEN /\ dir' = DirWrite(dir, callers.file.Id, TmpContent(callers.file, callers.tmp))
              /\ callers' = WriterReturns([callers EXCEPT !.tmp.exists = FALSE])
              /\ last' = WriteCall("return", last.value, "ok")
         ELSE /\ dir' = dir
              /\ callers' = WriterReturns(callers)
              /\ last' = WriteCall("return", last.value, "io")
    /\ UNCHANGED <<lsm, opened, closeCalled, written, nWrites, nFlushes, faultBudget,
                   reopens, lossy, wroteSinceOpen, now, writeLog, returned, hcc>>

NextWrite ==
    \/ WriteEmptyStep
    \/ WriteCreateTempStep
    \/ WriteHeaderStep
    \/ WriteDataBlockStep
    \/ WriteCloseStep
    \/ WriteMkdirAllStep
    \/ WriteRenameStep

\* One call of writeSSTable, step by step, with any of its steps failing.
SpecWrite == InitWrite /\ [][NextWrite]_vars

(***************************************************************************)
(* The multi-way iterator (src/unnamed/part_018): MultiHead over several   *)
(* sequences, each ascending by key, and the iteration of what it returns. *)
(* The variable written holds the sequences given; callers the iterator:   *)
(* its position, the heap, how far each sequence was pulled and the pair   *)
(* yielded last; returned the pairs yielded so far.  Positions in the heap *)
(* and sequence indices are 0-based as in the Go code.                     *)
(***************************************************************************)
\* The most sequences given to MultiHead.
MaxSeqs == 3

\* The keys of the sequences.
HeadKeys == {1, 2, 3}

\* cmp.Compare on the keys.
cmpCompare(a, b) == IF a < b THEN -1 ELSE IF a > b THEN 1 ELSE 0

\* The sequences of keys ascending by key.
AscendingKeys ==
    {s \in UNION {[1..n -> HeadKeys] : n \in 0..Cardinality(HeadKeys)} :
        \A i \in 1..(Len(s) - 1) : s[i] < s[i + 1]}

\* The lists of sequences given to MultiHead; the value of a pair tells the sequence it
\* is from and its key.
HeadInputs ==
    {[q \in 1..Len(ks) |-> [i \in 1..Len(ks[q]) |->
                               [Key |-> ks[q][i], Value |-> 10 * q + ks[q][i]]]] :
        ks \in UNION {[1..n -> AscendingKeys] : n \in 0..MaxSeqs}}

\* iterHeap.Less without the comparison of the sequence indices.
Less_KeyOnly(elements, i, j) ==
    cmpCompare(elements[i + 1].key, elements[j + 1].key) < 0

\* iterHeap.Less: element i has the lesser key, or the lesser sequence index with equal
\* keys.
Less(elements, i, j) ==
    IF cmpCompare(elements[i + 1].key, elements[j + 1].key) = 0
    THEN elements[i + 1].seqIdx < elements[j + 1].seqIdx
    ELSE cmpCompare(elements[i + 1].key, elements[j + 1].key) < 0

\* iterHeap.Swap.
Swap(elements, i, j) ==
    [elements EXCEPT ![i + 1] = elements[j + 1], ![j + 1] = elements[i + 1]]

RECURSIVE up(_, _)
\* up of container/heap: the element at j rises while it is less than its parent.
up(elements, j) ==
    LET i == IF j = 0 THEN 0 ELSE (j - 1) \div 2
    IN  IF i = j \/ ~Less(elements, j, i)
        THEN elements
        ELSE up(Swap(elements, i, j), i)

RECURSIVE down(_, _, _)
\* down of container/heap: the element at i sinks below its lesser child, within the
\* first n elements.
down(elements, i, n) ==
    LET j1 == 2 * i + 1
        j == IF j1 + 1 < n /\ Less(elements, j1 + 1, j1) THEN j1 + 1 ELSE j1
    IN  IF j1 >= n
        THEN elements
        ELSE IF ~Less(elements, j, i)
        THEN elements
        ELSE down(Swap(elements, i, j), j, n)

\* heap.Push with iterHeap.Push: the element is appended unless the capacity is
\* reached, then the last element rises.
heapPush(elements, capacity, x) ==
    LET pushed == IF Len(elements) = capacity THEN elements ELSE Append(elements, x)
    IN  IF Len(pushed) = 0 THEN pushed ELSE up(pushed, Len(pushed) - 1)

\* heap.Pop with iterHeap.Pop: the top goes to the end, the new top sinks, the last
\* element is removed and returned.
heapPop(elements) ==
    LET n == Len(elements) - 1
        sunk == down(Swap(elements, 0, n), 0, n)
    IN  [elements |-> SubSeq(sunk, 1, n), top |-> sunk[n + 1]]

\* heapElement.
heapElement(key, val, seqIdx) == [key |-> key, val |-> val, seqIdx |-> seqIdx]

\* The iterator: pull holds the sequences that had a first element, pulled how many
\* pairs each of them has given, nextElement the pair yielded last.
Iterator(pc, elements, capacity, pull, pulled, nextElement) ==
    [pc |-> pc, elements |-> elements, capacity |-> capacity, pull |-> pull,
     pulled |-> pulled, nextElement |-> nextElement]

\* No pair.
NoPair == [Key |-> 0, Value |-> 0]

RECURSIVE PullFirst(_, _)
\* The first loop of MultiHead over the sequences left: an empty sequence is skipped,
\* the first element of any other enters the heap with the next sequence index.
PullFirst(it, sequences) ==
    IF Len(sequences) = 0
    THEN it
    ELSE IF Len(Head(sequences)) = 0
    THEN PullFirst(it, Tail(sequences))
    ELSE PullFirst(
             [it EXCEPT !.elements = heapPush(it.elements, it.capacity,
                                              heapElement(Head(sequences)[1].Key,
                                                          Head(sequences)[1].Value,
                                                          Len(it.pull))),
                        !.pull = Append(it.pull, Head(sequences)),
                        !.pulled = Append(it.pulled, 1)],
             Tail(sequences))

\* MultiHead: an error for no sequences, else the iterator over the heap of the first
\* elements.
MultiHead(sequences) ==
    IF Len(sequences) = 0
    THEN [err |-> TRUE, it |-> Iterator("error", <<>>, 0, <<>>, <<>>, NoPair)]
    ELSE [err |-> FALSE,
          it |-> PullFirst(Iterator("ready", <<>>, Len(sequences), <<>>, <<>>, NoPair),
                           sequences)]

\* next: the top leaves the heap and the element after it in its sequence, if there is
\* one, enters; the pair of the top is returned.
next(it) ==
    LET popped == heapPop(it.elements)
        seqIdx == popped.top.seqIdx
        hasNext == it.pulled[seqIdx + 1] < Len(it.pull[seqIdx + 1])
        nextElement == it.pull[seqIdx + 1][it.pulled[seqIdx + 1] + 1]
    IN  [it |-> [it EXCEPT !.elements =
                               IF hasNext
                               THEN heapPush(popped.elements, it.capacity,
                                             heapElement(nextElement.Key, nextElement.Value,
                                                         seqIdx))
                               ELSE popped.elements,
                           !.pulled[seqIdx + 1] = IF hasNext THEN @ + 1 ELSE @],
         pair |-> [Key |-> popped.top.key, Value |-> popped.top.val]]

\* TopKey: the key at the top of the heap.
TopKey(it) == IF Len(it.elements) > 0 THEN it.elements[1].key ELSE 0

\* The record of a step of the iteration.
HeadCall(op, kind) == Call(op, <<>>, <<>>, [kind |-> kind], {})

\* The sequences are chosen; MultiHead has not been called.
InitHead ==
    /\ written \in HeadInputs
    /\ callers = Iterator("new", <<>>, 0, <<>>, <<>>, NoPair)
    /\ returned = <<>>
    /\ last = HeadCall("sequences", "none")
    /\ dir = EmptyDir
    /\ lsm = NoStore
    /\ opened = TRUE
    /\ closeCalled = FALSE
    /\ nWrites = 0
    /\ nFlushes = 0
    /\ faultBudget = 0
    /\ reopens = 0
    /\ lossy = FALSE
    /\ wroteSinceOpen = FALSE
    /\ now = 0
    /\ writeLog = <<>>
    /\ hcc = NoCache

\* MultiHead is called with the sequences.
MultiHeadStep ==
    /\ callers.pc = "new"
    /\ \E r \in {MultiHead(written)} :
         /\ callers' = r.it
         /\ last' = HeadCall("MultiHead", IF r.err THEN "error" ELSE "ok")
    /\ UNCHANGED <<lsm, dir, opened, closeCalled, written, nWrites, nFlushes, faultBudget,
                   reopens, lossy, wroteSinceOpen, now, writeLog, returned, hcc>>

\* The iteration begins: nothing is yielded from an empty heap, else the first pair is;
\* the consumer goes on or stops.
FirstYieldStep ==
    /\ callers.pc = "ready"
    /\ IF Len(callers.elements) = 0
       THEN /\ callers' = [callers EXCEPT !.pc = "done"]
            /\ returned' = returned
            /\ last' = HeadCall("end", "ok")
       ELSE \E r \in {next(callers)}, more \in BOOLEAN :
                /\ callers' = [r.it EXCEPT !.nextElement = r.pair,
                                           !.pc = IF more THEN "loop" ELSE "stopped"]
                /\ returned' = Append(returned, r.pair)
                /\ last' = HeadCall("yield", "ok")
    /\ UNCHANGED <<lsm, dir, opened, closeCalled, written, nWrites, nFlushes, faultBudget,
                   reopens, lossy, wroteSinceOpen, now, writeLog, hcc>>

\* One round of the loop: the iteration ends on an empty heap; a top with the key
\* yielded last is discarded; any other top is yielded, and the consumer goes on or stops.
LoopStep ==
    /\ callers.pc = "loop"
    /\ IF Len(callers.elements) = 0
       THEN /\ callers' = [callers EXCEPT !.pc = "done"]
            /\ returned' = returned
            /\ last' = HeadCall("end", "ok")
       ELSE \E r \in {next(callers)}, more \in BOOLEAN :
                IF cmpCompare(TopKey(callers), callers.nextElement.Key) = 0
                THEN /\ callers' = r.it
                     /\ returned' = returned
                     /\ last' = HeadCall("discard", "ok")
                ELSE /\ callers' = [r.it EXCEPT !.nextElement = r.pair,
                                                !.pc = IF more THEN "loop" ELSE "stopped"]
                     /\ returned' = Append(returned, r.pair)
                     /\ last' = HeadCall("yield", "ok")
    /\ UNCHANGED <<lsm, dir, opened, closeCalled, written, nWrites, nFlushes, faultBudget,
                   reopens, lossy, wroteSinceOpen, now, writeLog, hcc>>

NextHead ==
    \/ MultiHeadStep
    \/ FirstYieldStep
    \/ LoopStep

\* MultiHead over any list of ascending sequences, iterated to the end or until the
\* consumer stops.
SpecHead == InitHead /\ [][NextHead]_vars

(***************************************************************************)
(* One open segment called by several goroutines (pkg/storage/sstable.go   *)
(* 400-444): SSTable.Get and SSTable.Close, each under s.mux.  The         *)
(* variable lsm.diskTables holds the segment under its id; callers the     *)
(* goroutines; closeCalled tells that a Close has returned, with or        *)
(* without an error; faultBudget the failures of file.Close that may still *)
(* happen; nWrites counts the calls.                                       *)
(***************************************************************************)
\* The most calls the goroutines make on the segment.
MaxSegCalls == 4

\* s.mux without the wait: Lock returns at once.
SegMayLock_NoWait(p) == TRUE

\* s.mux (sync.Mutex): Lock waits until no goroutine holds the mutex.
SegMayLock(p) == \A q \in Procs \ {p} : callers[q].pc # "locked"

\* What SSTable.Close returns: nil, the error of a closed segment, or the error of
\* closing the reader or the file.
CloseResult(s, r) ==
    Result(IF s.closed THEN "closed" ELSE IF r.err THEN "io" ELSE "ok", <<>>)

\* A segment was written from a batch and opened; no goroutine is in a call.
InitSegCalls ==
    /\ \E pairs \in WriteBatches \ {<<>>} :
         /\ dir = DirWrite(EmptyDir, WriteNextId,
                           writeSSTable(0, WriteNextId, pairs,
                                        [present |-> FALSE, accepts |-> {}]))
         /\ written = BatchMap(pairs)
    /\ lsm = [NoStore EXCEPT !.diskTables = MapPut(<<>>, WriteNextId,
                                                   NewSSTable(dir[WriteNextId])),
                             !.latestDiskTable = WriteNextId]
    /\ opened = TRUE
    /\ last = Call("open", <<>>, <<>>, Result("ok", <<>>), {})
    /\ closeCalled = FALSE
    /\ nWrites = 0
    /\ nFlushes = 0
    /\ faultBudget \in 0..MaxFaults
    /\ reopens = 0
    /\ lossy = FALSE
    /\ wroteSinceOpen = FALSE
    /\ now = 0
    /\ callers = IdleCallers
    /\ writeLog = <<>>
    /\ returned = <<>>
    /\ hcc = NoCache

\* A goroutine calls SSTable.Get(key) or SSTable.Close() and waits for s.mux.
SegInvokeStep ==
    /\ nWrites < MaxSegCalls
    /\ nWrites' = nWrites + 1
    /\ \E p \in Procs, op \in {"get", "close"}, key \in Keys :
         /\ callers[p].pc = "idle"
         /\ op = "close" => key = HotKey
         /\ callers' = [callers EXCEPT ![p] =
                           [IdleCaller EXCEPT !.pc = "waiting", !.op = op,
                                              !.key = IF op = "get" THEN key ELSE <<>>]]
    /\ UNCHANGED <<lsm, dir, opened, last, closeCalled, written, nFlushes, faultBudget,
                   reopens, lossy, wroteSinceOpen, now, writeLog, returned, hcc>>

\* s.mux.Lock returns to a waiting goroutine.
SegLockStep ==
    /\ \E p \in Procs :
         /\ callers[p].pc = "waiting"
         /\ SegMayLock(p)
         /\ callers' = [callers EXCEPT ![p].pc = "locked"]
    /\ UNCHANGED <<lsm, dir, opened, last, closeCalled, written, nWrites, nFlushes,
                   faultBudget, reopens, lossy, wroteSinceOpen, now, writeLog, returned, hcc>>

\* The body of SSTable.Get under s.mux, and the deferred Unlock.
SegGetBody ==
    /\ \E p \in Procs :
         /\ callers[p].pc = "locked"
         /\ callers[p].op = "get"
         /\ \E r \in {SSTableGet(lsm.diskTables[WriteNextId], callers[p].key)} :
              /\ callers' = [callers EXCEPT ![p].pc = "done", ![p].res = r]
              /\ last' = Call("get", callers[p].key, <<>>, r, {})
    /\ UNCHANGED <<lsm, dir, opened, closeCalled, written, nWrites, nFlushes, faultBudget,
                   reopens, lossy, wroteSinceOpen, now, writeLog, returned, hcc>>

\* The body of SSTable.Close under s.mux, and the deferred Unlock; closing the file may
\* fail.
SegCloseBody ==
    /\ \E p \in Procs, fileCloseFails \in BOOLEAN :
         /\ callers[p].pc = "locked"
         /\ callers[p].op = "close"
         /\ fileCloseFails => (faultBudget > 0 /\ ~lsm.diskTables[WriteNextId].closed)
         /\ faultBudget' = IF fileCloseFails THEN faultBudget - 1 ELSE faultBudget
         /\ \E r \in {SSTableClose(lsm.diskTables[WriteNextId], fileCloseFails)} :
              /\ lsm' = [lsm EXCEPT !.diskTables[WriteNextId] = r.sst]
              /\ callers' = [callers EXCEPT
                                ![p].pc = "done",
                                ![p].res = CloseResult(lsm.diskTables[WriteNextId], r)]
              /\ last' = Call("close", <<>>, <<>>,
                              CloseResult(lsm.diskTables[WriteNextId], r), {})
    /\ closeCalled' = TRUE
    /\ UNCHANGED <<dir, opened, written, nWrites, nFlushes, reopens, lossy, wroteSinceOpen,
                   now, writeLog, returned, hcc>>

\* The call returns to the goroutine that made it.
SegReturnStep ==
    /\ \E p \in Procs :
         /\ callers[p].pc = "done"
         /\ callers' = [callers EXCEPT ![p] = IdleCaller]
    /\ UNCHANGED <<lsm, dir, opened, last, closeCalled, written, nWrites, nFlushes,
                   faultBudget, reopens, lossy, wroteSinceOpen, now, writeLog, returned, hcc>>

NextSegCalls ==
    \/ SegInvokeStep
    \/ SegLockStep
    \/ SegGetBody
    \/ SegCloseBody
    \/ SegReturnStep

\* One open segment under concurrent calls of Get and Close.
SpecSegCalls == InitSegCalls /\ [][NextSegCalls]_vars

(***************************************************************************)
(* The reaper of one HyperClock cache over a longer time (pkg/cache/       *)
(* hcc.go:216-256), with a tick interval of several units of the clock so  *)
(* that a ttl may be shorter than it.  The ticker fires and the clock      *)
(* advances again and again.                                               *)
(***************************************************************************)
\* The tickInterval of the cache, in units of the clock.
ReapTickInterval == 3

\* The time at which the clock of the model stops.
MaxReapTime == 9

\* The most calls of Add in a run.
MaxReapAdds == 2

\* The times at which the cache may be constructed.
ReapStarts == {0, 1}

\* The keys added.
ReapKeys == {1, 2}

\* The ttl arguments of Add, all positive, one of them shorter than the tick interval.
ReapTtls == {1, 3}

\* time.NewTicker(interval) at time t: the first tick is due one interval later.
NewTicker(interval, t) == [due |-> t + interval]

\* The ticker after a tick was received at time t: the ticks the receiver was too slow
\* for are dropped, the next one is due at the first period end after t.
RECURSIVE TickerAfter(_, _, _)
TickerAfter(ticker, interval, t) ==
    IF ticker.due > t
    THEN ticker
    ELSE TickerAfter([ticker EXCEPT !.due = @ + interval], interval, t)

\* The state after NewHyperClock: callers is the ticker of the reaper goroutine.
InitReap ==
    /\ dir = EmptyDir
    /\ lsm = NoStore
    /\ opened = TRUE
    /\ last = CacheCall("new", 0, 0, 0, Result("ok", <<>>))
    /\ closeCalled = FALSE
    /\ written = <<>>
    /\ nWrites = 0
    /\ nFlushes = 0
    /\ faultBudget = 0
    /\ reopens = 0
    /\ lossy = FALSE
    /\ wroteSinceOpen = FALSE
    /\ now \in ReapStarts
    /\ callers = NewTicker(ReapTickInterval, now)
    /\ writeLog = <<>>
    /\ returned = <<>>
    /\ hcc \in {NewHyperClock(capacity, ReapTickInterval, now) : capacity \in 1..MaxCapacity}

\* A caller invokes HyperClock.Add(key, 1, ttl) with a positive ttl, early enough that
\* two more ticks come due after the bucket of the entry before the clock of the model
\* stops.
ReapAddStep ==
    /\ opened
    /\ nWrites < MaxReapAdds
    /\ nWrites' = nWrites + 1
    /\ \E key \in ReapKeys, ttl \in ReapTtls :
         \E r \in {HccAdd(hcc, key, 1, ttl, now)} :
             /\ getTimeBucket(now + ttl, hcc.tickInterval) + 2 * hcc.tickInterval
                    <= MaxReapTime
             /\ hcc' = IF r.outcome = "ok" THEN Collect(r.hcc) ELSE hcc
             /\ opened' = (r.outcome = "ok")
             /\ last' = CacheCall("add", key, 1, ttl, Result("ok", <<>>))
    /\ UNCHANGED <<lsm, dir, closeCalled, written, nFlushes, faultBudget, reopens, lossy,
                   wroteSinceOpen, now, callers, writeLog, returned>>

\* The reaper goroutine receives a tick that is due: the buckets before the current
\* time are cleared.
ReapTickerStep ==
    /\ opened
    /\ callers.due <= now
    /\ callers' = TickerAfter(callers, ReapTickInterval, now)
    /\ \E order \in MapOrders(BucketKeys(hcc, DueBuckets(hcc, now))) :
         hcc' = Collect(ReaperLoop(hcc, now, order))
    /\ last' = CacheCall("reap", 0, 0, 0, Result("ok", <<>>))
    /\ UNCHANGED <<lsm, dir, opened, closeCalled, written, nWrites, nFlushes, faultBudget,
                   reopens, lossy, wroteSinceOpen, now, writeLog, returned>>

\* Time passes.
ReapClockStep ==
    /\ now < MaxReapTime
    /\ now' = now + 1
    /\ last' = CacheCall("tick", 0, 0, 0, Result("ok", <<>>))
    /\ UNCHANGED <<lsm, dir, opened, closeCalled, written, nWrites, nFlushes, faultBudget,
                   reopens, lossy, wroteSinceOpen, callers, writeLog, returned, hcc>>

NextReap ==
    \/ ReapAddStep
    \/ ReapTickerStep
    \/ ReapClockStep

\* ENABLED ReapTickerStep: a tick is due and the process is up.
ReapTickerEnabled == opened /\ callers.due <= now

\* One HyperClock cache under adds with positive ttls; the ticks that are due are
\* received and the clock keeps advancing (the context is never cancelled): weak
\* fairness of ReapTickerStep, whose steps are those recorded as "reap" in last, and of
\* ReapClockStep.
SpecReap ==
    /\ InitReap
    /\ [][NextReap]_vars
    /\ ([]<>~ReapTickerEnabled \/ []<><<last'.op = "reap">>_vars)
    /\ WF_vars(ReapClockStep)

(***************************************************************************)
(* The locks of a store: the RWMutex of KiwiStorage (pkg/port/backend.go), *)
(* the RWMutex of the LSM tree (pkg/storage/lsm.go), the mutex of each     *)
(* segment (pkg/storage/sstable.go), the mutex of its block reader         *)
(* (pkg/storage/block.go) and the RWMutex of each HyperClock shard of the  *)
(* block cache (pkg/cache/hcc.go).  A call is the sequence of lock         *)
(* operations its code performs; callers maps a goroutine to the           *)
(* operations it still has to perform (todo), the locks it holds (held)    *)
(* and whether its Lock is pending.                                        *)
(***************************************************************************)
\* The most calls the goroutines make in a run, reaper runs included.
MaxLockCalls == 3

\* The segments of the chain, tail first, and the shards of the block cache.
LockSegments == <<1>>
LockShards == {1, 2}

\* The goroutines: two callers of the store and the reaper goroutines of the shards.
LockCallers == {1, 2}
ReaperProc == 3
LockProcs == LockCallers \cup {ReaperProc}

\* The locks.
KsMux == <<"ks", 0>>
LsmMux == <<"lsm", 0>>
SegMux(id) == <<"seg", id>>
ReaderMux(id) == <<"reader", id>>
CacheMux(shard) == <<"cache", shard>>

\* The operations on a lock.
DoLock(l) == [act |-> "Lock", lock |-> l]
DoRLock(l) == [act |-> "RLock", lock |-> l]
DoUnlock(l) == [act |-> "Unlock", lock |-> l]
DoRUnlock(l) == [act |-> "RUnlock", lock |-> l]

\* HyperClock.Get: under the read lock of the shard.
CacheGetOps(shard) == <<DoRLock(CacheMux(shard)), DoRUnlock(CacheMux(shard))>>

\* HyperClock.Add whose eviction callback calls Get of the same cache.
CacheAddOps_CallbackReenters(shard) ==
    <<DoLock(CacheMux(shard))>> \o CacheGetOps(shard) \o <<DoUnlock(CacheMux(shard))>>

\* HyperClock.Add: under the write lock of the shard; the eviction callback of the block
\* cache runs inside and only counts.
CacheAddOps(shard) == <<DoLock(CacheMux(shard)), DoUnlock(CacheMux(shard))>>

\* BlockReader.ReadBlock.
ReadBlockOps(id) == <<DoLock(ReaderMux(id)), DoUnlock(ReaderMux(id))>>

\* The ways SSTable.Get can go: the key is outside the range or the bloom filter ("skip"),
\* the block is in the cache shard ("hit") or is read and cached ("miss").
SegVariants ==
    {[kind |-> "skip", shard |-> 0]}
    \cup {[kind |-> k, shard |-> s] : k \in {"hit", "miss"}, s \in LockShards}

\* SSTable.Get under the mutex of the segment.
SegGetOps(id, variant) ==
    <<DoLock(SegMux(id))>>
    \o (IF variant.kind = "skip" THEN <<>>
        ELSE IF variant.kind = "hit" THEN CacheGetOps(variant.shard)
        ELSE CacheGetOps(variant.shard) \o ReadBlockOps(id) \o CacheAddOps(variant.shard))
    \o <<DoUnlock(SegMux(id))>>

RECURSIVE WalkOps(_)
\* lookupDiskTables from the i-th segment of the chain on: the walk ends there (found, or
\* no segment left), or visits the segment and goes on.
WalkOps(i) ==
    IF i > Len(LockSegments)
    THEN {<<>>}
    ELSE {<<>>} \cup {SegGetOps(LockSegments[i], v) \o rest :
                          v \in SegVariants, rest \in WalkOps(i + 1)}

LookupOps == WalkOps(1)

\* LSMTree.Get under the read lock of the tree.
LsmGetOps == {<<DoRLock(LsmMux)>> \o lookup \o <<DoRUnlock(LsmMux)>> : lookup \in LookupOps}

\* LSMTree.Set under the write lock of the tree; a flush takes no lock.
LsmSetOps == <<DoLock(LsmMux), DoUnlock(LsmMux)>>

\* LSMTree.Swap under the write lock of the tree.
LsmSwapOps == {<<DoLock(LsmMux)>> \o lookup \o <<DoUnlock(LsmMux)>> : lookup \in LookupOps}

\* SSTable.Close with the Close of its block reader.
SegCloseOps(id) ==
    <<DoLock(SegMux(id)), DoLock(ReaderMux(id)), DoUnlock(ReaderMux(id)), DoUnlock(SegMux(id))>>

RECURSIVE CloseAllOps(_)
CloseAllOps(order) ==
    IF Len(order) = 0 THEN <<>> ELSE SegCloseOps(Head(order)) \o CloseAllOps(Tail(order))

\* LSMTree.Close under the write lock of the tree: the segments are closed in the order
\* of the map.
LsmCloseOps ==
    {<<DoLock(LsmMux)>> \o CloseAllOps(order) \o <<DoUnlock(LsmMux)>> :
         order \in MapOrders({LockSegments[i] : i \in DOMAIN LockSegments})}

\* KiwiStorage.Get, Set (with or without the read of the previous value), Delete, Close.
KiwiGetOps == {<<DoRLock(KsMux)>> \o get \o <<DoRUnlock(KsMux)>> : get \in LsmGetOps}
KiwiSetOps ==
    {<<DoLock(KsMux)>> \o get \o LsmSetOps \o <<DoUnlock(KsMux)>> : get \in LsmGetOps \cup {<<>>}}
KiwiDeleteOps == {<<DoLock(KsMux)>> \o swap \o <<DoUnlock(KsMux)>> : swap \in LsmSwapOps}
KiwiCloseOps == {<<DoLock(KsMux)>> \o close \o <<DoUnlock(KsMux)>> : close \in LsmCloseOps}

\* A run of the reaper of a shard.
ReaperOps == {<<DoLock(CacheMux(s)), DoUnlock(CacheMux(s))>> : s \in LockShards}

\* The calls a goroutine can make.
CallsOf(p) ==
    IF p = ReaperProc
    THEN ReaperOps
    ELSE KiwiGetOps \cup KiwiSetOps \cup KiwiDeleteOps \cup KiwiCloseOps

\* A goroutine in no call.
IdleGoroutine == [todo |-> <<>>, held |-> {}, pending |-> FALSE, running |-> FALSE]

\* No goroutine but p holds the lock.
FreeFor(p, lock) ==
    \A q \in LockProcs \ {p} : \A h \in callers[q].held : h.lock # lock

\* sync.RWMutex.RLock returns when no goroutine holds the write lock and no Lock is
\* pending.
MayRLock(p, lock) ==
    /\ \A q \in LockProcs : \A h \in callers[q].held : h.lock = lock => h.mode = "r"
    /\ \A q \in LockProcs \ {p} :
           ~(callers[q].pending /\ Head(callers[q].todo).lock = lock)

\* No goroutine is in a call.
InitLocks ==
    /\ dir = EmptyDir
    /\ lsm = NoStore
    /\ opened = TRUE
    /\ last = Call("new", <<>>, <<>>, Result("ok", <<>>), {})
    /\ closeCalled = FALSE
    /\ written = <<>>
    /\ nWrites = 0
    /\ nFlushes = 0
    /\ faultBudget = 0
    /\ reopens = 0
    /\ lossy = FALSE
    /\ wroteSinceOpen = FALSE
    /\ now = 0
    /\ callers = [p \in LockProcs |-> IdleGoroutine]
    /\ writeLog = <<>>
    /\ returned = <<>>
    /\ hcc = NoCache

\* Goroutine p starts a call; nWrites counts the calls.
LockInvoke(p) ==
    /\ ~callers[p].running
    /\ nWrites < MaxLockCalls
    /\ nWrites' = nWrites + 1
    /\ \E ops \in CallsOf(p) :
         callers' = [callers EXCEPT ![p] = [IdleGoroutine EXCEPT !.todo = ops,
                                                                  !.running = TRUE]]
    /\ UNCHANGED <<lsm, dir, opened, last, closeCalled, written, nFlushes, faultBudget, reopens,
                   lossy, wroteSinceOpen, now, writeLog, returned, hcc>>

\* Goroutine p calls Lock: from now on the lock admits no new reader.
LockRequest(p) ==
    /\ callers[p].running
    /\ Len(callers[p].todo) > 0
    /\ Head(callers[p].todo).act = "Lock"
    /\ ~callers[p].pending
    /\ callers' = [callers EXCEPT ![p].pending = TRUE]
    /\ UNCHANGED <<lsm, dir, opened, last, closeCalled, written, nWrites, nFlushes, faultBudget,
                   reopens, lossy, wroteSinceOpen, now, writeLog, returned, hcc>>

\* Lock returns to goroutine p: no goroutine holds the lock.
LockAcquire(p) ==
    /\ callers[p].running
    /\ callers[p].pending
    /\ FreeFor(p, Head(callers[p].todo).lock)
    /\ \A h \in callers[p].held : h.lock # Head(callers[p].todo).lock
    /\ callers' = [callers EXCEPT ![p].pending = FALSE,
                                  ![p].todo = Tail(@),
                                  ![p].held = @ \cup {[lock |-> Head(callers[p].todo).lock,
                                                       mode |-> "w"]}]
    /\ UNCHANGED <<lsm, dir, opened, last, closeCalled, written, nWrites, nFlushes, faultBudget,
                   reopens, lossy, wroteSinceOpen, now, writeLog, returned, hcc>>

\* RLock returns to goroutine p.
LockShared(p) ==
    /\ callers[p].running
    /\ Len(callers[p].todo) > 0
    /\ Head(callers[p].todo).act = "RLock"
    /\ MayRLock(p, Head(callers[p].todo).lock)
    /\ callers' = [callers EXCEPT ![p].todo = Tail(@),
                                  ![p].held = @ \cup {[lock |-> Head(callers[p].todo).lock,
                                                       mode |-> "r"]}]
    /\ UNCHANGED <<lsm, dir, opened, last, closeCalled, written, nWrites, nFlushes, faultBudget,
                   reopens, lossy, wroteSinceOpen, now, writeLog, returned, hcc>>

\* Goroutine p releases a lock (Unlock or RUnlock); after the last operation of the
\* call the call returns.
LockRelease(p) ==
    /\ callers[p].running
    /\ Len(callers[p].todo) > 0
    /\ Head(callers[p].todo).act \in {"Unlock", "RUnlock"}
    /\ callers' = [callers EXCEPT ![p].todo = Tail(@),
                                  ![p].held = {h \in @ : h.lock # Head(callers[p].todo).lock},
                                  ![p].running = Len(callers[p].todo) > 1]
    /\ UNCHANGED <<lsm, dir, opened, last, closeCalled, written, nWrites, nFlushes,
                   faultBudget, reopens, lossy, wroteSinceOpen, now, writeLog, returned, hcc>>

LockInvokeStep == \E p \in LockProcs : LockInvoke(p)
LockRequestStep == \E p \in LockProcs : LockRequest(p)
LockAcquireStep == \E p \in LockProcs : LockAcquire(p)
LockSharedStep == \E p \in LockProcs : LockShared(p)
LockReleaseStep == \E p \in LockProcs : LockRelease(p)

\* The steps of goroutine p inside a call.
LockProgress(p) ==
    \/ LockRequest(p)
    \/ LockAcquire(p)
    \/ LockShared(p)
    \/ LockRelease(p)

NextLocks ==
    \/ LockInvokeStep
    \/ LockRequestStep
    \/ LockAcquireStep
    \/ LockSharedStep
    \/ LockReleaseStep

\* Concurrent Get, Set, Delete and Close calls and reaper runs; the scheduler lets every
\* goroutine that stays able to take a step take one in the end.
SpecLocks ==
    /\ InitLocks
    /\ [][NextLocks]_vars
    /\ \A p \in LockProcs : WF_vars(LockProgress(p))

(***************************************************************************)
(* One store read through each kind of block cache (pkg/storage/           *)
(* block_cache.go over pkg/cache/layer.go): the no-op layer, a single      *)
(* HyperClock and a sharded cache.  The store has an empty memtable and    *)
(* one segment, written from a batch.  The same calls are made on three    *)
(* processes that differ in the cache flags only: hcc holds the three      *)
(* cache layers, last.res the three results of a call; the state of the    *)
(* segment does not depend on the cache and is kept once.                  *)
(***************************************************************************)
\* The cache flags of the three processes: enable_block_cache and
\* block_cache_shard_count.
LayerFlags ==
    [noop |-> [enabled |-> FALSE, shardCount |-> 1],
     single |-> [enabled |-> TRUE, shardCount |-> 1],
     sharded |-> [enabled |-> TRUE, shardCount |-> MaxShards]]

LayerNames == DOMAIN LayerFlags

\* newBlockCache at time t: the no-op layer unless the cache is enabled with a positive
\* capacity and shard count, a sharded cache for more than one shard, else one
\* HyperClock.
newBlockCache(enabled, capacity, shardCount, hash, t) ==
    IF enabled /\ capacity > 0 /\ shardCount > 0
    THEN IF shardCount > 1
         THEN [kind |-> "sharded",
               cache |-> [shards |-> [i \in 1..shardCount |->
                                         NewHyperClock(capacity, TickInterval, t)],
                          hash |-> hash]]
         ELSE [kind |-> "hcc", cache |-> NewHyperClock(capacity, TickInterval, t)]
    ELSE [kind |-> "noop", cache |-> <<>>]

\* Layer.Get: NoOp.Get finds nothing.
LayerGet(layer, key, t) ==
    IF layer.kind = "noop"
    THEN [layer |-> layer, value |-> 0, found |-> FALSE]
    ELSE LET r == IF layer.kind = "hcc" THEN HccGet(layer.cache, key, t)
                  ELSE ShardedGet(layer.cache, key, t)
         IN  [layer |-> [layer EXCEPT !.cache = r.hcc], value |-> r.value, found |-> r.found]

\* Layer.Add: NoOp.Add stores nothing.
LayerAdd(layer, key, value, ttl, t) ==
    IF layer.kind = "noop"
    THEN [layer |-> layer, outcome |-> "ok"]
    ELSE LET r == IF layer.kind = "hcc" THEN HccAdd(layer.cache, key, value, ttl, t)
                  ELSE ShardedAdd(layer.cache, key, value, ttl, t)
         IN  [layer |-> IF r.outcome = "ok" THEN [layer EXCEPT !.cache = r.hcc] ELSE layer,
              outcome |-> r.outcome]

\* BlockCache.Get and BlockCache.Set.
BlockCacheGet(layer, table, ssTableId, offset, t) ==
    LayerGet(layer, dbCacheKey(table, ssTableId, offset), t)

BlockCacheSet(layer, table, ssTableId, offset, block, t) ==
    LayerAdd(layer, dbCacheKey(table, ssTableId, offset), block, cacheTtl, t)

\* What a lookup through a layer returns, with the layer after it.
LayerResult(kind, val, layer, outcome) ==
    [kind |-> kind, val |-> val, layer |-> layer, outcome |-> outcome]

\* The end of getFromDataBlocks: the block comes from the cache or, on a miss, from the
\* block reader (which fails when closed) and is added to the cache; then the key is
\* searched in the block.
BlockLookup(s, cached, blockOffset, keyWithoutPrefix, t) ==
    IF cached.found
    THEN IF BinarySearchFunc(cached.value.Keys, keyWithoutPrefix).found
         THEN LayerResult("ok",
                          cached.value.Values[
                              BinarySearchFunc(cached.value.Keys, keyWithoutPrefix).index + 1],
                          cached.layer, "ok")
         ELSE LayerResult("not_found", <<>>, cached.layer, "ok")
    ELSE IF s.readerClosed
    THEN LayerResult("io", <<>>, cached.layer, "ok")
    ELSE LET read == ReadBlock(s.header, blockOffset)
             set == BlockCacheSet(cached.layer, SegTable, s.header.Id, blockOffset, read, t)
             inBlock == BinarySearchFunc(read.Keys, keyWithoutPrefix)
         IN  IF inBlock.found
             THEN LayerResult("ok", read.Values[inBlock.index + 1], set.layer, set.outcome)
             ELSE LayerResult("not_found", <<>>, set.layer, set.outcome)

\* SSTable.getFromDataBlocks over a cache layer.
getFromLayerBlocks(s, layer, key, t) ==
    LET search == BinarySearchFunc(s.header.FirstKeys, key)
        blockIndex == IF search.found THEN search.index ELSE search.index - 1
    IN  IF ~search.found /\ search.index = 0
        THEN LayerResult("not_found", <<>>, layer, "ok")
        ELSE BlockLookup(s,
                         BlockCacheGet(layer, SegTable, s.header.Id,
                                       s.header.BlockOffsets[blockIndex + 1], t),
                         s.header.BlockOffsets[blockIndex + 1],
                         TrimPrefix(key, s.header.Prefixes[blockIndex + 1]), t)

\* SSTable.Get over a cache layer: closed check, key range check, bloom filter, then the
\* data blocks.
SSTableGetLayer(s, layer, key, t) ==
    IF s.closed
    THEN LayerResult("closed", <<>>, layer, "ok")
    ELSE IF BytesCompare(key, s.header.FirstKeys[1]) < 0
            \/ BytesCompare(key, s.header.LastKey) > 0
         THEN LayerResult("not_found", <<>>, layer, "ok")
         ELSE IF s.header.BfIndex.present /\ key \notin s.header.BfIndex.accepts
              THEN LayerResult("not_found", <<>>, layer, "ok")
              ELSE getFromLayerBlocks(s, layer, key, t)

\* The garbage collector on the nodes of a layer.
CollectLayer(layer) ==
    IF layer.kind = "hcc" THEN [layer EXCEPT !.cache = Collect(@)]
    ELSE IF layer.kind = "sharded" THEN [layer EXCEPT !.cache = CollectShards(@)]
    ELSE layer

\* The reaper goroutines of a layer at time t: every shard clears its due buckets, each
\* in the order its range over the bucket visits the keys in order.
ReapLayer(layer, t, order) ==
    IF layer.kind = "hcc"
    THEN [layer EXCEPT !.cache = ReaperLoop(@, t, order)]
    ELSE IF layer.kind = "sharded"
    THEN [layer EXCEPT !.cache.shards = [i \in DOMAIN @ |-> ReaperLoop(@[i], t, order)]]
    ELSE layer

\* The shards of a layer.
LayerShards(layer) ==
    IF layer.kind = "hcc" THEN {layer.cache}
    ELSE IF layer.kind = "sharded" THEN {layer.cache.shards[i] : i \in DOMAIN layer.cache.shards}
    ELSE {}

\* The record of a call on the three processes.
LayerCall(op, key, res) == Call(op, key, <<>>, res, {})

SameResult(r) == [n \in LayerNames |-> r]

\* The keys of the data blocks of a segment file in the block cache.
BlockKeys(file) ==
    {dbCacheKey(SegTable, file.Id, file.BlockOffsets[i]) : i \in DOMAIN file.BlockOffsets}

\* The hash values of the block keys of a segment file, up to the names of the shards:
\* the first block falls into the first shard.
LayerHashes(file) ==
    {h \in [BlockKeys(file) -> 0..(MaxShards - 1)] : h[dbCacheKey(SegTable, file.Id, 0)] = 0}

\* A segment was written from a batch and opened; each process built its block cache.
InitLayers ==
    /\ \E pairs \in WriteBatches \ {<<>>} :
         /\ dir = DirWrite(EmptyDir, WriteNextId,
                           writeSSTable(0, WriteNextId, pairs,
                                        [present |-> FALSE, accepts |-> {}]))
         /\ written = BatchMap(pairs)
    /\ lsm = [NoStore EXCEPT !.diskTables = MapPut(<<>>, WriteNextId,
                                                   NewSSTable(dir[WriteNextId])),
                             !.latestDiskTable = WriteNextId]
    /\ opened = TRUE
    /\ last = LayerCall("open", <<>>, SameResult(Result("ok", <<>>)))
    /\ closeCalled = FALSE
    /\ nWrites = 0
    /\ nFlushes = 0
    /\ faultBudget \in 0..MaxFaults
    /\ reopens = 0
    /\ lossy = FALSE
    /\ wroteSinceOpen = FALSE
    /\ now = 0
    /\ callers = IdleCallers
    /\ writeLog = <<>>
    /\ returned = <<>>
    /\ \E capacity \in 1..MaxCapacity, hash \in LayerHashes(dir[WriteNextId]) :
         hcc = [n \in LayerNames |->
                   newBlockCache(LayerFlags[n].enabled, capacity, LayerFlags[n].shardCount,
                                 hash, 0)]

\* LSMTree.Get(key) on each process: the memtable is empty, the chain is the one segment.
LayerGetStep ==
    /\ opened
    /\ \E key \in Keys :
         \E r \in {[n \in LayerNames |->
                       SSTableGetLayer(lsm.diskTables[WriteNextId], hcc[n], key, now)]} :
             /\ hcc' = [n \in LayerNames |-> CollectLayer(r[n].layer)]
             /\ opened' = \A n \in LayerNames : r[n].outcome = "ok"
             /\ last' = LayerCall("get", key,
                                  [n \in LayerNames |-> Result(r[n].kind, r[n].val)])
    /\ UNCHANGED <<lsm, dir, closeCalled, written, nWrites, nFlushes, faultBudget, reopens,
                   lossy, wroteSinceOpen, now, callers, writeLog, returned>>

\* LSMTree.Close() on each process: nothing to flush, the segment is closed; closing the
\* file may fail.
LayerCloseStep ==
    /\ opened
    /\ \E fileCloseFails \in BOOLEAN :
         /\ fileCloseFails => (faultBudget > 0 /\ ~lsm.diskTables[WriteNextId].closed)
         /\ faultBudget' = IF fileCloseFails THEN faultBudget - 1 ELSE faultBudget
         /\ \E r \in {SSTableClose(lsm.diskTables[WriteNextId], fileCloseFails)} :
              /\ lsm' = [lsm EXCEPT !.diskTables[WriteNextId] = r.sst]
              /\ last' = LayerCall("close", <<>>,
                                   SameResult(Result(IF r.err THEN "io" ELSE "ok", <<>>)))
    /\ closeCalled' = TRUE
    /\ UNCHANGED <<dir, opened, written, nWrites, nFlushes, reopens, lossy, wroteSinceOpen,
                   now, callers, writeLog, returned, hcc>>

\* The tickers of the reaper goroutines fire while buckets are due; the processes were
\* started together and their tickers fire together.
LayerReaperStep ==
    /\ opened
    /\ \E n \in LayerNames : \E c \in LayerShards(hcc[n]) : c.reaperHand < now
    /\ \E order \in MapOrders(BlockKeys(dir[WriteNextId])) :
         hcc' = [n \in LayerNames |-> CollectLayer(ReapLayer(hcc[n], now, order))]
    /\ last' = LayerCall("reap", <<>>, SameResult(Result("ok", <<>>)))
    /\ UNCHANGED <<lsm, dir, opened, closeCalled, written, nWrites, nFlushes, faultBudget,
                   reopens, lossy, wroteSinceOpen, now, callers, writeLog, returned>>

\* Time passes.
LayerTickStep ==
    /\ now < MaxTime
    /\ now' = now + 1
    /\ last' = LayerCall("tick", <<>>, SameResult(Result("ok", <<>>)))
    /\ UNCHANGED <<lsm, dir, opened, closeCalled, written, nWrites, nFlushes, faultBudget,
                   reopens, lossy, wroteSinceOpen, callers, writeLog, returned, hcc>>

NextLayers ==
    \/ LayerGetStep
    \/ LayerCloseStep
    \/ LayerReaperStep
    \/ LayerTickStep

\* The same gets and closes on three processes that differ in the block cache only.
SpecLayers == InitLayers /\ [][NextLayers]_vars

(***************************************************************************)
(* The claims.                                                             *)
(***************************************************************************)
\* C1: while the store is open, get(k) of a key that was written returns the value of
\* the most recent set/swap of k, wherever that value lives (memtable or any segment).
C1_GetReturnsLatest ==
    (/\ last.op = "get"
     /\ ~closeCalled
     /\ ~lossy
     /\ last.key \in DOMAIN written)
    => last.res = Result("ok", written[last.key])

\* The part ids of the segment map that no segment of the map names as its previous part.
Tails(l) ==
    {i \in DOMAIN l.diskTables :
        \A j \in DOMAIN l.diskTables : l.diskTables[j].header.PrevPart # i}

\* Every call so far was a set/swap of a key not written before, with the short value,
\* and no file operation failed.
OnlyDistinctShortWrites ==
    /\ ~closeCalled
    /\ faultBudget = MaxFaults
    /\ Cardinality(DOMAIN written) = nWrites
    /\ \A k \in DOMAIN written : written[k] = <<1>>

\* C2: KiwiStorage.Get(k) returns not_found whenever the most recent record written for
\* k is a tombstone or an expired record, whatever older or other segments hold.
C2_NewestRecordShadows ==
    (/\ last.op = "kget"
     /\ ~closeCalled
     /\ ~lossy
     /\ last.key \in DOMAIN written
     /\ \/ OptsIs(unpack(written[last.key]).uv.opt, TombStone)
        \/ isExpired(unpack(written[last.key]).uv, now))
    => last.res.kind = "not_found"

\* C3: on a store opened on an empty directory, after n successful flushes the segment
\* map holds exactly the ids 1..n, segment i has prev_id i-1, id n is the only tail and
\* the tail pointer; writes of distinct keys give one segment per memtableFlushSize keys.
C3_ChainIds ==
    /\ DOMAIN lsm.diskTables = 1..nFlushes
    /\ \A i \in DOMAIN lsm.diskTables :
         /\ lsm.diskTables[i].header.Id = i
         /\ lsm.diskTables[i].header.PrevPart = i - 1
    /\ lsm.latestDiskTable = nFlushes
    /\ nFlushes > 0 => Tails(lsm) = {nFlushes}
    /\ OnlyDistinctShortWrites =>
         Cardinality(DOMAIN lsm.diskTables) = nWrites \div memtableFlushSize

\* C3 witness: two flushes succeeded, one file operation failed, and the store was closed.
C3_Witness ==
    /\ nFlushes >= 2
    /\ faultBudget < MaxFaults
    /\ closeCalled

C5_DurableRoundTrip ==
    (/\ last.op = "get"
     /\ reopens > 0
     /\ ~closeCalled
     /\ ~lossy
     /\ ~wroteSinceOpen
     /\ last.key \in DOMAIN written)
    => last.res = Result("ok", written[last.key])

\* C6: Close flushes the memtable first (no segment for an empty memtable), then closes
\* every segment of the map whatever failed before, and returns exactly the errors of the
\* flush (0) and of the segments whose close failed.
C6_CloseAggregates ==
    [][last'.op = "close" =>
         LET empty == lsm.memTable.entries = 0
             nextPartId == lsm.latestDiskTable + 1
         IN  /\ empty => (DOMAIN lsm'.diskTables = DOMAIN lsm.diskTables /\ dir' = dir)
             /\ (~empty /\ 0 \notin last'.errs) =>
                    /\ DOMAIN lsm'.diskTables = DOMAIN lsm.diskTables \cup {nextPartId}
                    /\ lsm'.latestDiskTable = nextPartId
                    /\ lsm'.memTable = NewMemTable
             /\ 0 \in last'.errs <=> (~empty /\ lsm'.memTable = lsm.memTable)
             /\ \A id \in DOMAIN lsm'.diskTables :
                    /\ lsm'.diskTables[id].closed \/ id \in last'.errs
                    /\ id \in last'.errs <=>
                           \/ id \in DOMAIN lsm.diskTables /\ lsm.diskTables[id].closed
                           \/ ~lsm'.diskTables[id].closed
             /\ last'.errs \subseteq {0} \cup DOMAIN lsm'.diskTables]_vars

\* C6 witness: a Close whose flush failed still closed a segment of the map.
C6_Witness ==
    /\ last.op = "close"
    /\ 0 \in last.errs
    /\ \E id \in DOMAIN lsm.diskTables : lsm.diskTables[id].closed /\ id \notin last.errs

\* C7: after Close has returned, every get, set and swap returns a "closed" error.
C7_CloseIsTerminal ==
    (/\ closeCalled
     /\ last.op \in {"get", "set", "swap"}
     /\ last.key # EmptyKey)
    => last.res.kind = "closed"

\* C8: get and set of the empty key return invalid_input and change neither the
\* memtable and its counters nor the segment map, the tail or the directory.
C8_EmptyKeyRejected ==
    [][(last'.op \in {"get", "set"} /\ last'.key = EmptyKey) =>
         /\ last'.res.kind = "invalid_input"
         /\ lsm' = lsm
         /\ dir' = dir
         /\ nFlushes' = nFlushes]_vars

\* C8 witness: set of the empty key was rejected on a memtable one pair short of a flush.
C8_Witness ==
    /\ last.op = "set"
    /\ last.key = EmptyKey
    /\ last.res.kind = "invalid_input"
    /\ lsm.memTable.entries = memtableFlushSize - 1

\* The ids and the previous-part ids of the segment files of a directory.
FileIds(d) == {d[n].Id : n \in DOMAIN d}
FilePrevIds(d) == {d[n].PrevPart : n \in DOMAIN d}

\* C9: NewLSMTree takes as tail the one segment id that no segment names as previous
\* part; it fails on two or more such ids and on none when segments exist; on a
\* directory without segments it returns a store with nil tail, empty map, empty memtable.
C9_TailDetection ==
    last.op = "open" =>
        LET unreferenced == FileIds(dir) \ FilePrevIds(dir)
        IN  /\ Cardinality(unreferenced) >= 2 =>
                   (~opened /\ last.res.kind = "multi_tail_lsm")
            /\ (FileIds(dir) # {} /\ unreferenced = {}) =>
                   (~opened /\ last.res.kind = "no_tail_lsm")
            /\ Cardinality(unreferenced) = 1 =>
                   (opened /\ {lsm.latestDiskTable} = unreferenced
                           /\ DOMAIN lsm.diskTables = FileIds(dir)
                           /\ lsm.memTable = NewMemTable)
            /\ FileIds(dir) = {} =>
                   (opened /\ lsm.latestDiskTable = 0 /\ DOMAIN lsm.diskTables = {}
                           /\ lsm.memTable = NewMemTable)

\* C9 witness: open failed on a directory of three segments with two unreferenced ids.
C9_Witness ==
    /\ last.op = "open"
    /\ last.res.kind = "multi_tail_lsm"
    /\ Cardinality(DOMAIN dir) = 3
    /\ Cardinality(FileIds(dir) \ FilePrevIds(dir)) = 2

\* No segment file names a previous part that is missing, and no two files share an id.
ChainConsistent(d) ==
    /\ \A n \in DOMAIN d : d[n].PrevPart > 0 => d[n].PrevPart \in FileIds(d)
    /\ \A n, o \in DOMAIN d : n # o => d[n].Id # d[o].Id

\* C10: open fails on a dangling prev_id and on duplicate ids, so on an opened store the
\* chain walk of get never reaches a missing link.
C10_OpenRejectsInconsistency ==
    /\ opened => ChainConsistent(dir)
    /\ last.op = "get" => last.res.kind # "missing_part"

\* C11: a SET reports could_set always without an existence check, for NX only when the
\* key has no live value and for XX only when it has one (a tombstoned or expired record
\* is no value); a refused SET writes nothing and leaves every GET as it was.
C11_ExistencePolicy ==
    [][(last'.op = "kset" /\ ~closeCalled /\ ~lossy /\ last'.res.err = "none") =>
         LET cmd == last'.value
             live == WrittenLive(cmd.key, now)
         IN  /\ last'.res.couldSet <=>
                    \/ cmd.existence = "noCheck"
                    \/ cmd.existence = "ifNotExists" /\ ~live
                    \/ cmd.existence = "ifExists" /\ live
             /\ ~last'.res.couldSet =>
                    /\ lsm' = lsm
                    /\ dir' = dir
                    /\ \A k \in Keys :
                           KiwiStorageGet(lsm', k, now) = KiwiStorageGet(lsm, k, now)]_vars

\* The record a SET writes by the KEEPTTL rule, given the record last written for its key.
TtlRecord(cmd, t) ==
    IF /\ cmd.keepTtl
       /\ WrittenLive(cmd.key, t)
       /\ OptsIs(unpack(written[cmd.key]).uv.opt, Expirable)
    THEN Unpacked(Expirable, cmd.value, unpack(written[cmd.key]).uv.expiry)
    ELSE IF cmd.expiryTime # 0
         THEN Unpacked(Expirable, cmd.value, cmd.expiryTime)
         ELSE Unpacked(0, cmd.value, 0)

\* C12: a SET with KEEPTTL stores the previous record's expiry exactly when that record
\* exists, is expirable and is not expired; every other SET stores the command's expiry
\* if it has one and no expiry otherwise.
C12_KeepTtl ==
    [][(last'.op = "kset" /\ ~closeCalled /\ ~lossy /\ last'.res.err = "none"
                          /\ last'.res.couldSet) =>
         LSMTreeGet(lsm', last'.key) = Result("ok", pack(TtlRecord(last'.value, now)))]_vars


\* C13: a SET with the get flag that returns without error reports hasPreviousValue
\* exactly when the key's last written record is live (not a tombstone, not expired),
\* then with previousValue the unpacked value bytes of that record (no flags byte, no
\* expiry trailer), and with an empty previousValue otherwise, whatever couldSet is.
C13_SetGetPrevious ==
    [][(last'.op = "kset" /\ ~closeCalled /\ ~lossy /\ last'.res.err = "none"
                          /\ last'.value.get) =>
         LET live == WrittenLive(last'.key, now)
         IN  /\ last'.res.hasPreviousValue = live
             /\ last'.res.previousValue =
                    IF live THEN unpack(written[last'.key]).uv.value ELSE <<>>]_vars


\* C14: DEL is idempotent: a Delete of a key whose last written record is the tombstone
\* of an earlier Delete (no SET of the key since) returns not_found, so that DEL counts
\* 0 deleted keys, whether the tombstone is in the memtable or in a segment.
C14_DeleteIdempotent ==
    [][(/\ last'.op = "kdelete" /\ ~closeCalled /\ ~lossy
        /\ last'.key \in DOMAIN written
        /\ written[last'.key] = tombstonePacked
        /\ last'.res.kind \in {"none", "not_found"}) =>
         last'.res.kind = "not_found"]_vars


\* C15: Delete is an unconditional swap to a tombstone: it returns not_found exactly
\* when no record of the key was ever written (none in the memtable, none in a segment),
\* success otherwise, and in both cases a Get of the key then returns not_found.
C15_DeleteIsSwap ==
    [][(/\ last'.op = "kdelete" /\ ~closeCalled /\ ~lossy
        /\ last'.res.kind \in {"none", "not_found"}) =>
         /\ last'.res.kind = "not_found" <=> last'.key \notin DOMAIN written
         /\ KiwiStorageGet(lsm', last'.key, now).kind = "not_found"]_vars


\* C16: the store is linearizable for its callers: a Get(k) that was invoked after a
\* Set(k, v) had returned observes v or the value of a later write of k, never an older
\* value, another key's value or not_found, also when a flush moved v to a segment.
C16_Linearizable ==
    \A p \in Procs :
        (callers[p].pc = "done" /\ callers[p].op = "get" /\ callers[p].floor > 0) =>
            /\ callers[p].res.kind = "ok"
            /\ \E i \in callers[p].floor..Len(writeLog[callers[p].key]) :
                   writeLog[callers[p].key][i] = callers[p].res.val


\* C17: Set reads the previous record, decides couldSet and writes as one atomic step:
\* of two SET NX commands of a key that run concurrently with no write between them, the
\* key having no live value before the first, exactly one (the first to run) returns
\* couldSet = true and the value stored is that command's value.
C17_SetIsAtomic ==
    \A p, q \in Procs :
        (/\ callers[p].pc = "done" /\ callers[q].pc = "done"
         /\ callers[p].op = "kset" /\ callers[q].op = "kset"
         /\ callers[p].key = callers[q].key
         /\ callers[p].value.existence = "ifNotExists"
         /\ callers[q].value.existence = "ifNotExists"
         /\ callers[q].seq = callers[p].seq + 1
         /\ ~callers[p].live) =>
            /\ callers[p].res.couldSet
            /\ ~callers[q].res.couldSet
            /\ KiwiStorageGet(lsm, callers[p].key, now) = Result("ok", callers[p].value.value)


\* C18: when a cache holds capacity entries, after any Add it still holds exactly
\* capacity entries; the Add of a new key evicts exactly one entry and returns true, and
\* the evicted entry had ref = false when the hand reached it or had expired.
C18_CapacityHeld ==
    [][(/\ last'.op = "add"
        /\ nWrites' = nWrites + 1
        /\ hcc.size = hcc.capacity
        /\ Cardinality(DOMAIN hcc.index) = hcc.capacity) =>
         /\ last'.res.outcome = "ok"
         /\ hcc'.size = hcc.capacity
         /\ Cardinality(DOMAIN hcc'.index) = hcc.capacity
         /\ last'.key \in DOMAIN hcc.index => ~last'.res.evictionOccurred
         /\ last'.key \notin DOMAIN hcc.index =>
                /\ last'.res.evictionOccurred
                /\ Cardinality(DOMAIN hcc.index \ DOMAIN hcc'.index) = 1
                /\ ~last'.res.ref \/ last'.res.expired]_vars


\* C19: Get(k) is a hit returning the stored value exactly when k is in the index and the
\* time is not after the entry's expiresAt; a hit sets the entry's ref and changes nothing
\* else, a miss changes nothing.
C19_GetHitOrMiss ==
    [][(last'.op = "get") =>
         IF /\ last'.key \in DOMAIN hcc.index
            /\ ~(now > hcc.nodes[hcc.index[last'.key]].expiresAt)
         THEN /\ last'.res.found
              /\ last'.res.value = hcc.nodes[hcc.index[last'.key]].value
              /\ hcc' = [hcc EXCEPT !.nodes[hcc.index[last'.key]].ref = TRUE]
         ELSE /\ ~last'.res.found
              /\ hcc' = hcc]_vars

\* A Get has hit an entry, whose ref is now set, while another entry of the index had expired.
C19_Witness ==
    /\ last.op = "get"
    /\ last.res.found
    /\ hcc.nodes[hcc.index[last.key]].ref
    /\ \E k \in DOMAIN hcc.index : now > hcc.nodes[hcc.index[k]].expiresAt


\* The keys filed in the bucket b, with their nodes.
Filed(c, b) == IF b \in DOMAIN c.expiryBuckets THEN c.expiryBuckets[b] ELSE <<>>

C21_EvictionLoopBounded ==
    [][(/\ last'.op = "add"
        /\ nWrites' = nWrites + 1
        /\ last'.key \notin DOMAIN hcc.index
        /\ ~(hcc.size < hcc.capacity)) =>
         LET skipped == SkippedNodes(hcc, now, <<>>)
             n == hcc'.index[last'.key]
         IN  /\ last'.res.outcome = "ok"
             /\ last'.res.evictionOccurred
             /\ Len(skipped) + 1 <= 2 * hcc.capacity
             /\ \A i \in DOMAIN skipped :
                    \A k \in DOMAIN hcc.index \cap DOMAIN hcc'.index :
                        hcc.index[k] = skipped[i] => ~hcc'.nodes[hcc'.index[k]].ref
             /\ hcc'.hand = IF hcc'.nodes[n].next = 0 THEN hcc'.head ELSE hcc'.nodes[n].next]_vars

\* C22: after a reaper tick the hand is nil or points at a node of the list, also when
\* the tick removed the node under the hand or the last nodes of the list.
C22_HandInList ==
    last.op = "reap" =>
        \/ hcc.hand = 0
        \/ \E i \in DOMAIN ListNodes(hcc, hcc.head, <<>>) :
               ListNodes(hcc, hcc.head, <<>>)[i] = hcc.hand

\* C23: a sharded cache routes a key to the shard hash(key) mod N, and N and the hash never
\* change: a Get(k) right after an Add(k, v) finds v, no key is in the index of two
\* shards, Keys() lists the keys of the shards' indexes, each once, and after Purge() the
\* index of every shard is empty.
C23_ShardRouting ==
    [][/\ hcc'.hash = hcc.hash
       /\ DOMAIN hcc'.shards = DOMAIN hcc.shards
       /\ (last.op = "add" /\ last.res.outcome = "ok" /\ last'.op = "get"
           /\ last'.key = last.key) =>
              /\ last'.res.found
              /\ last'.res.value = last.value.value
       /\ (last'.op \in {"add", "get"} /\ opened') =>
              \A i \in DOMAIN hcc.shards :
                  i # (hcc.hash[last'.key] % Len(hcc.shards)) + 1 =>
                      hcc'.shards[i] = hcc.shards[i]
       /\ \A i, j \in DOMAIN hcc'.shards :
              i # j => DOMAIN hcc'.shards[i].index \cap DOMAIN hcc'.shards[j].index = {}
       /\ last'.op = "keys" =>
              /\ {last'.res.keys[n] : n \in DOMAIN last'.res.keys}
                     = UNION {DOMAIN hcc.shards[i].index : i \in DOMAIN hcc.shards}
              /\ \A m, n \in DOMAIN last'.res.keys :
                     m # n => last'.res.keys[m] # last'.res.keys[n]
       /\ last'.op = "purge" =>
              \A i \in DOMAIN hcc'.shards : hcc'.shards[i].index = <<>>]_vars

\* A Get has hit a key of the second of two shards while the first shard held the other key.
C23_Witness ==
    /\ last.op = "get"
    /\ last.res.found
    /\ Len(hcc.shards) = 2
    /\ getShard(hcc, last.key) = 2
    /\ DOMAIN hcc.shards[2].index = {last.key}
    /\ DOMAIN hcc.shards[1].index = ShardKeys \ {last.key}

\* C24: after every Set, Swap and Delete of a memtable, entries is the number of distinct
\* keys held and heldBytes the sum of len(key) + len(value) over the pairs held; an
\* update changes heldBytes by the difference of the value lengths, a Delete of an absent
\* key changes nothing; Set and Swap return shouldFlush = (entries >= memtableFlushSize or
\* heldBytes >= memtableFlushSizeBytes) of the memtable after the update.
C24_MemTableAccounting ==
    [][(nWrites' = nWrites + 1) =>
         LET m == lsm.memTable
             n == lsm'.memTable
             held == {i \in DOMAIN m.skipList : m.skipList[i].Key = last'.key}
         IN  /\ n.entries = Cardinality({n.skipList[i].Key : i \in DOMAIN n.skipList})
             /\ n.entries = Len(n.skipList)
             /\ n.heldBytes = SumLen([i \in DOMAIN n.skipList |-> n.skipList[i].Key])
                                 + SumLen([i \in DOMAIN n.skipList |-> n.skipList[i].Value])
             /\ (last'.op \in {"set", "swap"} /\ held # {}) =>
                    /\ n.entries = m.entries
                    /\ \A i \in held :
                           n.heldBytes - m.heldBytes
                               = Len(last'.value) - Len(m.skipList[i].Value)
             /\ (last'.op = "delete" /\ held = {}) => n = m /\ ~last'.res.found
             /\ (last'.op = "delete" /\ held # {}) => last'.res.found /\ n.entries = m.entries - 1
             /\ last'.op \in {"set", "swap"} =>
                    last'.res.shouldFlush = (\/ n.entries >= memtableFlushSize
                                            \/ n.heldBytes >= memtableFlushSizeBytes)]_vars

\* A Set made the memtable reach memtableFlushSize entries exactly, below the byte
\* threshold, and returned shouldFlush.
C24_Witness ==
    /\ last.op = "set"
    /\ last.res.shouldFlush
    /\ lsm.memTable.entries = memtableFlushSize
    /\ lsm.memTable.heldBytes < memtableFlushSizeBytes

\* C25: for every choice of levels, after any Sets and Deletes of a skip list Iterate
\* yields exactly the keys that are set and not deleted, each once, in strictly ascending
\* order and with the value last set; Set and Delete return the previous value and
\* whether the key was there, and Get returns the value iterate would yield.
C25_OrderedMap ==
    [][/\ LET pairs == LevelsIterate(lsm'.memTable.skipList)
          IN  /\ {pairs[i].Key : i \in DOMAIN pairs} = DOMAIN written'
              /\ \A i \in DOMAIN pairs : pairs[i].Value = written'[pairs[i].Key]
              /\ \A i, j \in DOMAIN pairs :
                     i < j => BytesCompare(pairs[i].Key, pairs[j].Key) < 0
       /\ last'.op = "iterate" => last'.res.pairs = LevelsIterate(lsm.memTable.skipList)
       /\ last'.op \in {"set", "delete", "get"} =>
              /\ last'.res.found = (last'.key \in DOMAIN written)
              /\ last'.res.found => last'.res.prevVal = written[last'.key]]_vars

\* A Delete has removed the key "ab" from between "aa" and "b"; the list is below
\* maxLevel and holds a node of two levels.
C25_Witness ==
    /\ last.op = "delete"
    /\ last.res.found
    /\ last.key = <<1, 2>>
    /\ DOMAIN written = {<<1, 1>>, <<2>>}
    /\ lsm.memTable.skipList.level < MaxLevel
    /\ \E n \in DOMAIN lsm.memTable.skipList.nodes :
           Len(lsm.memTable.skipList.nodes[n].forwards) = 2

RECURSIVE Decompressed(_, _, _)
\* The pairs a compressed batch stands for, from block i on: the prefix of each block
\* before each of its keys, with the value at the same position.
Decompressed(prefixes, blocks, i) ==
    IF i > Len(blocks)
    THEN <<>>
    ELSE [j \in 1..Len(blocks[i].Keys) |->
             [Key |-> prefixes[i] \o blocks[i].Keys[j], Value |-> blocks[i].Values[j]]]
         \o Decompressed(prefixes, blocks, i + 1)

\* C26: for a batch ascending by key, compressDataBlocks returns as many prefixes as
\* blocks; every block is non-empty and has as many keys as values; the prefixes put
\* before the keys of their blocks give back the keys of the batch in order, with their
\* values; no pairs give no blocks, one pair gives one block with the empty prefix.
C26_CompressRoundTrip ==
    last.op = "compress" =>
        /\ Len(last.res.prefixes) = Len(last.res.blocks)
        /\ \A i \in DOMAIN last.res.blocks :
               /\ Len(last.res.blocks[i].Keys) >= 1
               /\ Len(last.res.blocks[i].Keys) = Len(last.res.blocks[i].Values)
        /\ Len(last.res.prefixes) = Len(last.res.blocks) =>
               Decompressed(last.res.prefixes, last.res.blocks, 1) = last.value
        /\ Len(last.value) = 0 => last.res.blocks = <<>> /\ last.res.prefixes = <<>>
        /\ Len(last.value) = 1 => Len(last.res.blocks) = 1 /\ last.res.prefixes = << <<>> >>

\* A batch of four keys was compressed into two blocks, the first with a prefix of two
\* bytes.
C26_Witness ==
    /\ last.op = "compress"
    /\ Len(last.value) = 4
    /\ Len(last.res.blocks) = 2
    /\ Len(last.res.prefixes[1]) = 2

\* C27: every pair of the batch a segment was written from is found in the opened
\* segment: Get of its key returns its value, whichever way the pairs were split into
\* blocks, with or without a bloom filter, with the block taken from the cache or the file.
C27_SegmentCompleteness ==
    (last.op = "get" /\ last.key \in DOMAIN written)
        => (last.res.kind = "ok" /\ last.res.val = written[last.key])

\* A pair of a segment of several blocks with a bloom filter was found in a block taken
\* from the cache.
C27_Witness ==
    /\ last.op = "get"
    /\ last.key \in DOMAIN written
    /\ last.res.hit
    /\ last.res.val = written[last.key]
    /\ dir[1].BfIndex.present
    /\ Len(dir[1].Blocks) > 1

\* C28: a key that is not in the batch a segment was written from is not found in the
\* opened segment, whether or not it starts with the prefix of the block searched.
C28_SegmentSoundness ==
    (last.op = "get" /\ last.key \notin DOMAIN written) => last.res.kind = "not_found"

\* A packed buffer of the layout of the format: a flags byte that is the tombstone flag
\* with no payload, the expirable flag with a value and eight bytes of expiry, or no flag
\* with a value.
WellFormed(packed) ==
    /\ Len(packed) >= 1
    /\ \/ packed = <<TombStone>>
       \/ packed[1] = Expirable /\ Len(packed) >= 1 + 8
       \/ packed[1] = 0

\* C29: the codec round trip: unpacking what pack made of a tombstone, a plain value or
\* an expirable value gives the record back, packing what unpack made of a well-formed
\* buffer gives the buffer back, and isExpired answers true only for an expirable record
\* whose expiry is before now.
C29_CodecRoundTrip ==
    /\ (written.kind = "record" /\ last.op = "unpack")
           => (~last.res.err /\ last.res.uv = written.uv)
    /\ (written.kind = "buffer" /\ WellFormed(written.packed) /\ last.op = "unpack")
           => ~last.res.err
    /\ (written.kind = "buffer" /\ WellFormed(written.packed) /\ last.op = "pack")
           => last.value = written.packed
    /\ (last.op = "isExpired" /\ last.res.expired)
           => (OptsIs(last.res.uv.opt, Expirable) /\ last.res.uv.expiry < now)

\* An expirable record whose expiry takes more than one byte came back from pack and
\* unpack.
C29_Witness ==
    /\ written.kind = "record"
    /\ last.op = "unpack"
    /\ OptsIs(written.uv.opt, Expirable)
    /\ written.uv.expiry > 255
    /\ Len(written.uv.value) > 0
    /\ last.res.uv = written.uv

BlockCuts(blocks) ==
    {SumLen([k \in 1..i |-> blocks[k].Keys]) : i \in 1..(Len(blocks) - 1)}

\* The least lcp of the neighbouring keys of the block that holds the pairs i and i + 1,
\* in the partition of the pairs with the given cuts.
BlockMinLcp(pairs, cuts, i) ==
    LET first == IF \E c \in cuts : c < i
                 THEN (CHOOSE c \in cuts : c < i /\ \A x \in cuts : x < i => x <= c) + 1
                 ELSE 1
        lastNext == IF \E c \in cuts : c > i
                    THEN (CHOOSE c \in cuts : c > i /\ \A x \in cuts : x > i => c <= x) - 1
                    ELSE Len(pairs) - 1
    IN  SeqMin([k \in 1..(lastNext - first + 1) |->
                   lcpLen(pairs[first + k - 1].Key, pairs[first + k].Key)])

RECURSIVE PartitionSavings(_, _, _)
\* The savings of the partition with the given cuts, counted from the pair i on: each
\* block saves its least lcp once for every pair after its first.
PartitionSavings(pairs, cuts, i) ==
    IF i >= Len(pairs)
    THEN 0
    ELSE (IF i \in cuts THEN 0 ELSE BlockMinLcp(pairs, cuts, i))
         + PartitionSavings(pairs, cuts, i + 1)

\* C31: the blocks compressDataBlocks returns are a partition of the pairs whose savings
\* no other partition into contiguous blocks exceeds, and no partition with the same
\* savings has fewer blocks; the prefix of each block is as long as the least lcp of the
\* neighbouring keys of the block, 0 for a block of one key.
C31_CompressOptimal ==
    (last.op = "compress" /\ Len(last.value) >= 1) =>
        LET pairs == last.value
            blocks == last.res.blocks
            cuts == BlockCuts(blocks)
            savings == PartitionSavings(pairs, cuts, 1)
        IN  /\ SumLen([k \in 1..Len(blocks) |-> blocks[k].Keys]) = Len(pairs)
            /\ \A other \in SUBSET (1..(Len(pairs) - 1)) :
                   /\ PartitionSavings(pairs, other, 1) <= savings
                   /\ PartitionSavings(pairs, other, 1) = savings
                          => Cardinality(other) >= Cardinality(cuts)
            /\ \A b \in 1..Len(blocks) :
                   Len(last.res.prefixes[b]) =
                       IF Len(blocks[b].Keys) = 1
                       THEN 0
                       ELSE BlockMinLcp(pairs, cuts,
                                        SumLen([k \in 1..(b - 1) |-> blocks[k].Keys]) + 1)

\* A batch of four keys was split into two blocks although one block of all four has
\* savings too: the two blocks save more.
C31_Witness ==
    /\ last.op = "compress"
    /\ Len(last.value) = 4
    /\ Len(last.res.blocks) = 2
    /\ PartitionSavings(last.value, {}, 1) > 0
    /\ PartitionSavings(last.value, {}, 1)
           < PartitionSavings(last.value, BlockCuts(last.res.blocks), 1)

\* The keys that occur in any of the sequences.
AllKeys(sequences) ==
    UNION {{sequences[q][i].Key : i \in 1..Len(sequences[q])} : q \in 1..Len(sequences)}

\* The merge of the sequences: every key once, ascending, with the value of the first
\* sequence that holds the key.
Merged(sequences) ==
    LET keys == AllKeys(sequences)
        order == CHOOSE s \in [1..Cardinality(keys) -> keys] :
                     \A i \in 1..(Cardinality(keys) - 1) : s[i] < s[i + 1]
        first(k) == CHOOSE q \in 1..Len(sequences) :
                        /\ \E i \in 1..Len(sequences[q]) : sequences[q][i].Key = k
                        /\ \A p \in 1..(q - 1) :
                               \A i \in 1..Len(sequences[p]) : sequences[p][i].Key # k
    IN  [n \in 1..Cardinality(keys) |->
            [Key |-> order[n],
             Value |-> LET s == sequences[first(order[n])]
                       IN  s[CHOOSE i \in 1..Len(s) : s[i].Key = order[n]].Value]]

\* C32: MultiHead over sequences ascending by key yields every key of any sequence once,
\* in strictly ascending order, with the value of the first sequence that holds the key;
\* empty sequences change nothing; the heap never holds two elements of one sequence.
C32_MultiHeadMerge ==
    /\ Len(returned) <= Len(Merged(written))
    /\ returned = SubSeq(Merged(written), 1, Len(returned))
    /\ callers.pc = "done" => returned = Merged(written)
    /\ \A i \in 1..Len(callers.elements) : \A j \in 1..Len(callers.elements) :
           callers.elements[i].seqIdx = callers.elements[j].seqIdx => i = j

\* Three sequences, the first of them empty, were merged to the end; a key of the
\* second came after a greater key of the third had been in the heap, and a key held by
\* both was yielded with the value of the second.
C32_Witness ==
    /\ callers.pc = "done"
    /\ Len(written) = 3
    /\ Len(written[1]) = 0
    /\ Len(written[2]) = 2
    /\ Len(written[3]) = 2
    /\ written[2][2].Key = written[3][2].Key
    /\ written[3][1].Key < written[2][1].Key
    /\ Len(returned) = 3
    /\ returned[3].Value = written[2][2].Value

\* C33: a segment is closed once: a Close on a segment no Close was called on succeeds
\* and marks the segment closed (unless closing the file fails), every Close after it
\* returns an error, a Get on a segment marked closed returns the error of a closed
\* segment, neither a value nor not_found, and no two goroutines are in the bodies of Get
\* or Close of the segment at the same time.
C33_CloseOnce ==
    [][/\ \A p \in Procs :
              (callers[p].pc = "locked" /\ callers'[p].pc = "done") =>
                  /\ (callers[p].op = "close" /\ ~closeCalled /\ faultBudget' = faultBudget)
                         => (callers'[p].res.kind = "ok"
                             /\ lsm'.diskTables[WriteNextId].closed)
                  /\ (callers[p].op = "close" /\ closeCalled)
                         => callers'[p].res.kind \in {"closed", "io"}
                  /\ (callers[p].op = "get" /\ lsm.diskTables[WriteNextId].closed)
                         => callers'[p].res.kind = "closed"
       /\ Cardinality({p \in Procs : callers'[p].pc = "locked"}) <= 1]_vars

\* A Get of a key of the segment returned the error of a closed segment while the other
\* goroutine, which had closed the segment, had its second Close waiting for the mutex.
C33_Witness ==
    /\ last.op = "get"
    /\ last.key \in DOMAIN written
    /\ last.res.kind = "closed"
    /\ lsm.diskTables[WriteNextId].closed
    /\ \E p \in Procs : callers[p].pc = "waiting" /\ callers[p].op = "close"
    /\ \E p \in Procs : callers[p].pc = "done" /\ callers[p].op = "get"

\* The keys of the nodes of the circular list.
ListKeys(c) ==
    {c.nodes[ListNodes(c, c.head, <<>>)[i]].key : i \in DOMAIN ListNodes(c, c.head, <<>>)}

C35_Structure ==
    /\ DOMAIN hcc.index = ListKeys(hcc)
    /\ \A k \in DOMAIN hcc.index : hcc.nodes[hcc.index[k]].key = k
    /\ Len(ListNodes(hcc, hcc.head, <<>>)) <= hcc.capacity
    /\ \A k \in DOMAIN hcc.index :
           {b \in DOMAIN hcc.expiryBuckets : k \in DOMAIN hcc.expiryBuckets[b]}
               = {getTimeBucket(hcc.nodes[hcc.index[k]].expiresAt, hcc.tickInterval)}

\* C36: a reaper run removes only expired entries: an entry whose expiresAt is later
\* than the current time just before the run, which Get would hit, is still in the index
\* and still a hit just after it.
C36_ReapsOnlyExpired ==
    [][(last'.op = "reap") =>
         \A k \in DOMAIN hcc.index :
             hcc.nodes[hcc.index[k]].expiresAt > now =>
                 /\ k \in DOMAIN hcc'.index
                 /\ ~(now' > hcc'.nodes[hcc'.index[k]].expiresAt)]_vars

\* A flush failed in the step: a set or swap that used up a fault, or a close whose
\* joined errors hold the error of the flush.
FlushFailed ==
    /\ faultBudget' < faultBudget
    /\ \/ last'.op \in {"set", "swap"}
       \/ last'.op = "close" /\ 0 \in last'.errs

\* The memtable of the step once its write is applied (Close writes nothing).
AppliedMemTable ==
    IF last'.op = "close"
    THEN lsm.memTable
    ELSE MemTableSwap(lsm.memTable, last'.key, last'.value).memTable

BelowThresholds(m) ==
    /\ m.entries < memtableFlushSize
    /\ m.heldBytes < memtableFlushSizeBytes

LockRank(lock) ==
    IF lock[1] = "ks" THEN 1
    ELSE IF lock[1] = "lsm" THEN 2
    ELSE IF lock[1] = "seg" THEN 3
    ELSE 4

\* C39: a goroutine calls Lock or RLock only while every lock it holds is earlier in the
\* order KiwiStorage, LSM tree, segment, block reader or cache shard (so the eviction
\* callback, which runs under the lock of its shard, takes no lock of the cache), and
\* every call of concurrent Get, Set, Delete, Close and every reaper run returns in the
\* end.
C39_DeadlockFree ==
    /\ [][\A p \in LockProcs :
              (/\ Len(callers'[p].todo) > 0
               /\ Head(callers'[p].todo).act \in {"Lock", "RLock"}) =>
                  \A g \in callers'[p].held :
                      LockRank(g.lock) < LockRank(Head(callers'[p].todo).lock)]_vars
    /\ \A p \in LockProcs : callers[p].running ~> ~callers[p].running

\* C39 witness: a goroutine in Close holds the locks of KiwiStorage, of the tree, of a
\* segment and of its block reader while another goroutine has its Lock of KiwiStorage
\* pending and the reaper holds the lock of a cache shard.
C39_Witness ==
    /\ \E p \in LockCallers :
           {h.lock : h \in callers[p].held} = {KsMux, LsmMux, SegMux(1), ReaderMux(1)}
    /\ \E p \in LockCallers : callers[p].pending /\ Head(callers[p].todo).lock = KsMux
    /\ callers[ReaperProc].held # {}

\* C40: the block cache is transparent.  For the same sequence of operations on one
\* store, every get returns the same result whether the block cache is the no-op layer, a
\* single HyperClock or a sharded cache; and a block held by a cache under
\* (table, segment id, offset) is the block stored at that offset of that segment.
C40_CacheTransparent ==
    /\ (last.op = "get") =>
           \A n \in LayerNames : last.res[n] = last.res.noop
    /\ \A n \in LayerNames : \A c \in LayerShards(hcc[n]) :
           \A k \in DOMAIN c.index :
               /\ k \in BlockKeys(dir[WriteNextId])
               /\ c.nodes[c.index[k]].value = ReadBlock(dir[WriteNextId], k[3])

====
